---- MODULE Spec2Model ----
(***************************************************************************)
(* Miner dashboard backend: the Series Store (DataManager), the Row Codec  *)
(* (CSVParser), the Ingestion Watcher (FileWatcher), the Notification Sink *)
(* (broadcast_update) and the Price Cache (PriceCSVLoader).                *)
(*                                                                         *)
(* A CSV line of a prediction log is the pair <<timestamp, prediction>>;   *)
(* the header line "timestamp,<asset>_prediction" is HeaderLine.  A        *)
(* DataFrame is [cols, rows]: cols is the set of header lines whose        *)
(* columns the frame carries (pandas names the columns after the first     *)
(* line it is given, so a text whose first line is a data line yields      *)
(* columns named after that line's values), and each row remembers the     *)
(* header it was decoded under.  The frame has a 'timestamp' column iff    *)
(* HeaderLine \in cols.                                                    *)
(***************************************************************************)
EXTENDS Integers, Sequences, FiniteSets, TLC

\* ------------------------------------------------------------------ bounds
MaxDeltaRows == 2      \* rows of a frame handed to merge / diff directly
MaxFileRows == 3       \* data lines a prediction log grows to

\* ------------------------------------------------------- value alphabets
Sources == {"A", "B"}
Timestamps == {1, 2}
NonNumeric == 0        \* a prediction cell holding text float() rejects
NaT == -1              \* pandas' missing timestamp
HeaderLine == <<0, 0>>

\* the data lines merged and diffed directly: one timestamp with two
\* predictions (a re-emitted row), and a second timestamp
DataLines == {<<1, 1>>, <<1, 2>>, <<2, 1>>}

Row(h, l) == [hdr |-> h, line |-> l]

\* the value of the row under the 'timestamp' column of a frame that has one
TimestampOf(r) == IF r.hdr = HeaderLine THEN r.line[1] ELSE NaT

\* pd.notna(row[<asset>_prediction])
HasPrediction(r) == r.hdr = HeaderLine

PredictionOf(r) == r.line[2]

EmptyDataFrame == [cols |-> {}, rows |-> <<>>]

IsEmpty(df) == df.rows = <<>>

HasTimestampCol(df) == HeaderLine \in df.cols

\* rows of s at the positions satisfying Keep(_), order kept
\* the elements of s at the positions in keep, in order (a boolean mask)
SelectIdx(s, keep) ==
  LET picked == SelectSeq([i \in 1..Len(s) |-> <<i, s[i]>>], LAMBDA e : e[1] \in keep)
  IN [j \in 1..Len(picked) |-> picked[j][2]]

\* ------------------------------------------------------------ Row Codec
\* CSVParser.parse_csv on the text made of `lines`
parse_csv(lines) ==
  IF lines = <<>> THEN EmptyDataFrame
  ELSE [cols |-> {lines[1]},
        rows |-> [i \in 1..(Len(lines) - 1) |-> Row(lines[1], lines[i + 1])]]

\* Series.astype(str) of one timestamp: its decimal rendering
RECURSIVE TimestampStr(_)
TimestampStr(t) ==
  IF t < 10 THEN <<t>> ELSE TimestampStr(t \div 10) \o <<t % 10>>

TimestampStrs(df) == {TimestampStr(TimestampOf(df.rows[i])) : i \in 1..Len(df.rows)}

\* whole-row comparison new_df.isin(old_df).all(axis=1): row i of new_df is
\* "in" old_df iff every column of new_df is a column of old_df and old_df
\* holds the same values at the same index label
RowIsIn(old_df, new_df, i) ==
  /\ new_df.cols \subseteq old_df.cols
  /\ i <= Len(old_df.rows)
  /\ old_df.rows[i] = new_df.rows[i]

\* a faulty variant of get_new_rows: compares whole rows instead of keys
get_new_rows_ByValue(old_df, new_df) ==
  IF IsEmpty(old_df) THEN [raised |-> FALSE, df |-> new_df]
  ELSE [raised |-> FALSE,
        df |-> [cols |-> new_df.cols,
                rows |-> SelectIdx(new_df.rows,
                           {i \in 1..Len(new_df.rows) :
                              \A j \in 1..Len(old_df.rows) : old_df.rows[j] # new_df.rows[i]})]]

\* CSVParser.get_new_rows
get_new_rows(old_df, new_df) ==
  IF IsEmpty(old_df) THEN [raised |-> FALSE, df |-> new_df]
  ELSE IF IsEmpty(new_df) THEN [raised |-> FALSE, df |-> EmptyDataFrame]
  ELSE IF ~HasTimestampCol(new_df)
    THEN [raised |-> FALSE,
          df |-> [cols |-> new_df.cols,
                  rows |-> SelectIdx(new_df.rows,
                             {i \in 1..Len(new_df.rows) : ~RowIsIn(old_df, new_df, i)})]]
  ELSE IF ~HasTimestampCol(old_df)
    THEN [raised |-> TRUE, df |-> EmptyDataFrame]      \* KeyError on old_df[timestamp_col]
  ELSE LET old_timestamps == TimestampStrs(old_df)
           new_timestamps == TimestampStrs(new_df)
           added_timestamps == new_timestamps \ old_timestamps
       IN IF added_timestamps = {} THEN [raised |-> FALSE, df |-> EmptyDataFrame]
          ELSE [raised |-> FALSE,
                df |-> [cols |-> new_df.cols,
                        rows |-> SelectIdx(new_df.rows,
                                   {i \in 1..Len(new_df.rows) :
                                      TimestampStr(TimestampOf(new_df.rows[i])) \in added_timestamps})]]

\* --------------------------------------------------------- Series Store
\* DataFrame.drop_duplicates(subset=[timestamp_col], keep='last')
drop_duplicates_last(rows) ==
  SelectIdx(rows,
            {i \in 1..Len(rows) :
               \A j \in (i + 1)..Len(rows) : TimestampOf(rows[j]) # TimestampOf(rows[i])})

\* a sorts before b under sort_values(timestamp_col, ascending=False): NaT last
BeforeDesc(a, b) ==
  /\ TimestampOf(a) # NaT
  /\ (TimestampOf(b) = NaT \/ TimestampOf(a) > TimestampOf(b))

\* DataFrame.sort_values(timestamp_col, ascending=False); equal keys keep
\* their order (the insertion sort numpy uses on short arrays is stable)
sort_values_desc(rows) ==
  LET n == Len(rows)
      rank(i) == 1 + Cardinality({j \in 1..n :
                     \/ BeforeDesc(rows[j], rows[i])
                     \/ (~BeforeDesc(rows[i], rows[j]) /\ j < i)})
  IN [p \in 1..n |-> rows[CHOOSE i \in 1..n : rank(i) = p]]

\* DataFrame.sort_values(timestamp_col) on rows that all carry a timestamp
sort_values_asc(rows) ==
  LET n == Len(rows)
      rank(i) == 1 + Cardinality({j \in 1..n :
                     \/ TimestampOf(rows[j]) < TimestampOf(rows[i])
                     \/ (TimestampOf(rows[j]) = TimestampOf(rows[i]) /\ j < i)})
  IN [p \in 1..n |-> rows[CHOOSE i \in 1..n : rank(i) = p]]

\* the rows MetricsCalculator keeps with df[df[pred_col].notna()]
ValidRows(df) ==
  SelectSeq(df.rows, HasPrediction)

\* MetricsCalculator.calculate_basic_stats raises: float() of the latest
\* prediction cell when that cell is not numeric
BasicStatsRaises(df) ==
  LET valid == ValidRows(df)
  IN valid # <<>> /\ PredictionOf(valid[Len(valid)]) = NonNumeric

\* MetricsCalculator.calculate_prediction_trends raises: float() of the
\* first or last prediction in timestamp order
TrendsRaises(df) ==
  LET sorted == sort_values_asc(ValidRows(df))
  IN /\ Len(sorted) >= 2
     /\ (PredictionOf(sorted[1]) = NonNumeric
         \/ PredictionOf(sorted[Len(sorted)]) = NonNumeric)

\* now - timedelta(hours=1) of a call, on the scale of the timestamps: every
\* row is younger than an hour (1), only those of the later timestamp are
\* (2), or none is (3)
OneHourAgos == {1, 2, 3}

\* the rows get_pending_evaluations keeps: df[df['pred_time'] >= one_hour_ago]
PendingRows(df, one_hour_ago) ==
  SelectSeq(df.rows, LAMBDA r : TimestampOf(r) # NaT /\ TimestampOf(r) >= one_hour_ago)

\* MetricsCalculator.get_pending_evaluations raises: float() of the
\* prediction cell of every pending row
PendingRaises(df, one_hour_ago) ==
  LET pending == PendingRows(df, one_hour_ago)
  IN \E i \in 1..Len(pending) :
       HasPrediction(pending[i]) /\ PredictionOf(pending[i]) = NonNumeric

StatsOf(miner_name, df) ==
  [miner_name |-> miner_name,
   total_predictions |-> Len(df.rows),
   asset_predictions |-> IF HasTimestampCol(df) THEN Len(ValidRows(df)) ELSE 0]

\* a faulty variant of _update_stats: stores the summary under every known miner
update_stats_AllMiners(md, ms, miner_name, one_hour_ago) ==
  IF miner_name \notin DOMAIN md \/ IsEmpty(md[miner_name])
    THEN [stats |-> ms, raised |-> FALSE]
    ELSE [stats |-> [m \in DOMAIN md |-> StatsOf(miner_name, md[miner_name])],
          raised |-> FALSE]

\* DataManager._update_stats: the new miner_stats, or the exception of the
\* pending evaluations, the basic statistics or the trends
update_stats(md, ms, miner_name, one_hour_ago) ==
  IF miner_name \notin DOMAIN md \/ IsEmpty(md[miner_name])
    THEN [stats |-> ms, raised |-> FALSE]
  ELSE IF HasTimestampCol(md[miner_name])
          /\ (\/ PendingRaises(md[miner_name], one_hour_ago)
              \/ BasicStatsRaises(md[miner_name])
              \/ TrendsRaises(md[miner_name]))
    THEN [stats |-> ms, raised |-> TRUE]
  ELSE [stats |-> (miner_name :> StatsOf(miner_name, md[miner_name])) @@ ms,
        raised |-> FALSE]

\* a faulty variant of the merge: the delta replaces the stored frame
MergeFrames_DeltaOnly(existing, df) ==
  LET cols == df.cols
      rows == df.rows
  IN IF HeaderLine \in cols
       THEN [cols |-> cols, rows |-> sort_values_desc(drop_duplicates_last(rows))]
       ELSE [cols |-> cols, rows |-> rows]

\* pd.concat([existing, df]) then, when the timestamp column exists,
\* drop_duplicates(keep='last') and sort_values(ascending=False)
MergeFrames(existing, df) ==
  LET cols == existing.cols \cup df.cols
      rows == existing.rows \o df.rows
  IN IF HeaderLine \in cols
       THEN [cols |-> cols, rows |-> sort_values_desc(drop_duplicates_last(rows))]
       ELSE [cols |-> cols, rows |-> rows]

\* DataManager.update_miner_data, the miner_data it leaves
MergedData(md, miner_name, df) ==
  IF miner_name \in DOMAIN md
    THEN (miner_name :> MergeFrames(md[miner_name], df)) @@ md
    ELSE (miner_name :> df) @@ md

\* DataManager.update_miner_data: [data, stats, raised]
update_miner_data(md, ms, miner_name, df, one_hour_ago) ==
  LET data == MergedData(md, miner_name, df)
      st == update_stats(data, ms, miner_name, one_hour_ago)
  IN [data |-> data, stats |-> st.stats, raised |-> st.raised]

\* ----------------------------------------------------- Ingestion Watcher
MAX_HISTORICAL_ROWS == 3   \* Config.MAX_HISTORICAL_ROWS, as set by the environment
NoStat == -2               \* last_size / last_mtime still None

WatchedMiner == "A"

\* prediction cells a log line may hold: a number, or text that is no number
FileLines == {<<1, 1>>, <<2, 1>>, <<2, NonNumeric>>}

\* f.readlines() of the log: the header line, then the data lines
ReadLines(data_lines) == <<HeaderLine>> \o data_lines

\* lines[-Config.MAX_HISTORICAL_ROWS:] when the file is longer than that
TailLines(lines) ==
  IF Len(lines) > MAX_HISTORICAL_ROWS
    THEN SubSeq(lines, Len(lines) - MAX_HISTORICAL_ROWS + 1, Len(lines))
    ELSE lines

\* stat().st_size and stat().st_mtime of an append-only log: both grow with
\* every appended line
StatSize(data_lines) == Len(data_lines) + 1
StatMtime(data_lines) == Len(data_lines)

\* the attributes of the pandas module that main.py's serialize_for_json
\* names and pandas has (the tz-aware dtype is pandas.DatetimeTZDtype)
PandasAttributes == {"Timestamp", "Series", "DataFrame", "isna", "DatetimeTZDtype"}

\* a faulty variant of serialize_for_json: the delta's records, nothing raised
serialize_for_json_Works(obj) ==
  [raised |-> FALSE, out |-> obj.rows]

\* serialize_for_json(obj): its first isinstance test builds the tuple
\* (pd.Timestamp, pd.DatetimeTZType), which raises AttributeError when
\* pandas has no such attribute, whatever obj is
serialize_for_json(obj) ==
  IF {"Timestamp", "DatetimeTZType"} \subseteq PandasAttributes
    THEN [raised |-> FALSE, out |-> obj.rows]
    ELSE [raised |-> TRUE, out |-> <<>>]

\* broadcast_update(miner_name, data): the connections whose send_json the
\* caller awaits.  None when nobody is connected (it returns at once) and
\* none when building the message raises (the except logs it).
broadcast_update(conns, data) ==
  IF conns = {} THEN {}
  ELSE IF serialize_for_json(data).raised THEN {}
  ELSE conns

\* a faulty variant of on_file_update: folds in the first delta row only
on_file_update_FirstRowOnly(md, ms, conns, delta, one_hour_ago) ==
  LET u == update_miner_data(md, ms, WatchedMiner,
                             [cols |-> delta.cols, rows |-> SubSeq(delta.rows, 1, 1)],
                             one_hour_ago)
  IN [data |-> u.data, stats |-> u.stats, raised |-> u.raised,
      merges |-> 1, publishes |-> IF u.raised THEN 0 ELSE 1,
      awaited |-> IF u.raised THEN {} ELSE broadcast_update(conns, delta)]

\* on_file_update(miner_name, delta): the merge, then the publish, which is
\* skipped when the merge raises.  awaited: the connections the publish
\* suspends on; with none the callback has no suspension point.
on_file_update(md, ms, conns, delta, one_hour_ago) ==
  LET u == update_miner_data(md, ms, WatchedMiner, delta, one_hour_ago)
  IN [data |-> u.data, stats |-> u.stats, raised |-> u.raised,
      merges |-> 1, publishes |-> IF u.raised THEN 0 ELSE 1,
      awaited |-> IF u.raised THEN {} ELSE broadcast_update(conns, delta)]

Quiet(md, ms, ldf, read, raised) ==
  [data |-> md, stats |-> ms, last_df |-> ldf, read |-> read, emitted |-> <<>>,
   merges |-> 0, publishes |-> 0, raised |-> raised, escaped |-> FALSE, awaited |-> {}]

\* a faulty variant of _read_and_process: the Snapshot read is not recorded
read_and_process_NoRecord(md, ms, ldf, conns, exists, readable, data_lines, one_hour_ago) ==
  LET new_df == parse_csv(TailLines(ReadLines(data_lines)))
      deliver(delta) ==
        LET u == on_file_update(md, ms, conns, delta, one_hour_ago)
        IN [data |-> u.data, stats |-> u.stats, last_df |-> ldf,
            read |-> TRUE, emitted |-> delta.rows,
            merges |-> u.merges, publishes |-> u.publishes, raised |-> u.raised,
            escaped |-> FALSE, awaited |-> u.awaited]
  IN IF ~exists THEN Quiet(md, ms, ldf, FALSE, FALSE)
     ELSE IF ~readable THEN Quiet(md, ms, ldf, FALSE, TRUE)
     ELSE IF IsEmpty(new_df) THEN Quiet(md, ms, ldf, TRUE, FALSE)
     ELSE IF ldf # <<>>
       THEN LET new_rows == get_new_rows(ldf[1], new_df)
            IN IF new_rows.raised THEN Quiet(md, ms, ldf, TRUE, TRUE)
               ELSE IF ~IsEmpty(new_rows.df) THEN deliver(new_rows.df)
               ELSE Quiet(md, ms, ldf, TRUE, FALSE)
     ELSE deliver(new_df)

\* FileWatcher._read_and_process; ldf is last_df, <<>> standing for None;
\* readable: open() and readlines() succeed (they raise OSError when the
\* file exists but cannot be read).
\* raised: an exception occurred inside its try; escaped: one left the
\* function, which 'except Exception' never lets happen
read_and_process(md, ms, ldf, conns, exists, readable, data_lines, one_hour_ago) ==
  LET new_df == parse_csv(TailLines(ReadLines(data_lines)))
      deliver(delta) ==
        LET u == on_file_update(md, ms, conns, delta, one_hour_ago)
        IN [data |-> u.data, stats |-> u.stats,
            last_df |-> IF u.raised THEN ldf ELSE <<new_df>>,
            read |-> TRUE, emitted |-> delta.rows,
            merges |-> u.merges, publishes |-> u.publishes, raised |-> u.raised,
            escaped |-> FALSE, awaited |-> u.awaited]
  IN IF ~exists THEN Quiet(md, ms, ldf, FALSE, FALSE)
     ELSE IF ~readable THEN Quiet(md, ms, ldf, FALSE, TRUE)
     ELSE IF IsEmpty(new_df) THEN Quiet(md, ms, ldf, TRUE, FALSE)
     ELSE IF ldf # <<>>
       THEN LET new_rows == get_new_rows(ldf[1], new_df)
            IN IF new_rows.raised THEN Quiet(md, ms, ldf, TRUE, TRUE)
               ELSE IF ~IsEmpty(new_rows.df) THEN deliver(new_rows.df)
               ELSE Quiet(md, ms, <<new_df>>, TRUE, FALSE)
     ELSE deliver(new_df)

\* FileWatcher.manual_fetch's "success" field, given what _read_and_process did
manual_fetch(r) == IF r.escaped THEN "failure" ELSE "success"

\* ---------------------------------------------------------- Price Cache
ToleranceSeconds == 300
NoPrice == 0           \* None: no price found
MaxWrites == 2         \* rewrites of reference price files

\* the keys of PriceCSVLoader.ASSET_CSV_MAP
ASSET_CSV_MAP == {"btc", "eth", "tao"}

QueryAssets == {"btc", "tao_bittensor", "doge"}

\* asset_map.get(asset.lower(), asset.lower())
asset_map(asset) == IF asset = "tao_bittensor" THEN "tao" ELSE asset

\* contents of a reference price file: rows <<timestamp, close>> under a
\* header that has both columns ("ok"), lacks 'close', lacks 'timestamp',
\* or a text pandas cannot read ("garbled")
OkPriceRows ==
  { <<>>,
    << <<600, 1>> >>,
    << <<600, 1>>, <<610, 2>> >>,
    << <<300, 1>>, <<900, 2>> >>,
    << <<900, 2>>, <<300, 1>> >>,
    << <<300, 1>>, <<1200, 2>> >> }

PriceVersions ==
  {[shape |-> "ok", rows |-> r] : r \in OkPriceRows}
    \cup {[shape |-> "noclose", rows |-> << <<600, 1>> >>],
          [shape |-> "notimestamp", rows |-> << <<600, 1>> >>],
          [shape |-> "garbled", rows |-> <<>>]}

EvalTimes == {299, 300, 600, 899, 900, 901}

BatchInputs == { <<>>, <<900>>, <<899, 901>>, <<300, 600, 299>> }

\* the assets whose file the price producer rewrites while the cache runs
RewrittenAssets == {"btc"}

NoFile == [exists |-> FALSE, mtime |-> 0, shape |-> "ok", rows |-> <<>>]

Abs(x) == IF x < 0 THEN 0 - x ELSE x

\* a faulty variant of RoundedTime: the nearest 5-minute boundary
RoundedTime_Nearest(t) ==
  ((t + 150) \div 300) * 300

\* dt.replace(minute=(dt.minute // 5) * 5, second=0, microsecond=0) on a
\* time counted in seconds
RoundedTime(t) ==
  LET minute == (t \div 60) % 60
      rounded_minute == (minute \div 5) * 5
  IN (t \div 3600) * 3600 + rounded_minute * 60

\* lookup[key] = value on a dict kept as the sequence of its items in
\* insertion order
DictSet(d, k, v) ==
  IF \E i \in 1..Len(d) : d[i][1] = k
    THEN [i \in 1..Len(d) |-> IF d[i][1] = k THEN <<k, v>> ELSE d[i]]
    ELSE Append(d, <<k, v>>)

DictHas(d, k) == \E i \in 1..Len(d) : d[i][1] = k

DictGet(d, k) == d[CHOOSE i \in 1..Len(d) : d[i][1] = k][2]

\* the loop `for _, row in df.iterrows(): lookup[row['timestamp_rounded']] = ...`
RECURSIVE BuildLookup(_, _, _)
BuildLookup(rows, i, lookup) ==
  IF i > Len(rows) THEN lookup
  ELSE BuildLookup(rows, i + 1, DictSet(lookup, RoundedTime(rows[i][1]), rows[i][2]))

\* get_price_at_time: the scan for the closest key, `closest` being the
\* position of closest_time in the dict (0: None, min_diff still infinite)
RECURSIVE ClosestTime(_, _, _, _)
ClosestTime(lookup, i, eval_rounded, closest) ==
  IF i > Len(lookup) THEN closest
  ELSE LET diff == Abs(lookup[i][1] - eval_rounded)
           below == closest = 0 \/ diff < Abs(lookup[closest][1] - eval_rounded)
       IN ClosestTime(lookup, i + 1, eval_rounded,
                      IF below /\ diff <= ToleranceSeconds THEN i ELSE closest)

\* a faulty variant of get_price_answer: the tolerance test is strict
get_price_answer_Strict(loaded, lookup, eval_time) ==
  LET eval_rounded == RoundedTime(eval_time)
  IN IF ~loaded THEN NoPrice
     ELSE IF DictHas(lookup, eval_rounded) THEN DictGet(lookup, eval_rounded)
     ELSE IF \E i \in 1..Len(lookup) : Abs(lookup[i][1] - eval_rounded) < ToleranceSeconds
       THEN lookup[CHOOSE i \in 1..Len(lookup) :
                     Abs(lookup[i][1] - eval_rounded) < ToleranceSeconds][2]
     ELSE NoPrice

\* get_price_at_time after _load_price_csv returned: `loaded` is
\* "df is not None and not df.empty", lookup the asset's dict ({} if none)
get_price_answer(loaded, lookup, eval_time) ==
  LET eval_rounded == RoundedTime(eval_time)
      closest == ClosestTime(lookup, 1, eval_rounded, 0)
  IN IF ~loaded THEN NoPrice
     ELSE IF DictHas(lookup, eval_rounded) THEN DictGet(lookup, eval_rounded)
     ELSE IF closest # 0 THEN lookup[closest][2]
     ELSE NoPrice

\* fetch_prices_batch: the scan for the closest key of one rounded time
RECURSIVE BatchClosestTime(_, _, _, _)
BatchClosestTime(lookup, i, rounded, closest) ==
  IF i > Len(lookup) THEN closest
  ELSE LET diff == Abs(lookup[i][1] - rounded)
           below == closest = 0 \/ diff < Abs(lookup[closest][1] - rounded)
       IN BatchClosestTime(lookup, i + 1, rounded,
                           IF below /\ diff <= ToleranceSeconds THEN i ELSE closest)

\* fetch_prices_batch after _load_price_csv returned: the result dict
RECURSIVE fetch_batch_answer(_, _, _, _, _)
fetch_batch_answer(loaded, lookup, eval_times, i, result) ==
  IF ~loaded THEN <<>>
  ELSE IF i > Len(eval_times) THEN result
  ELSE LET eval_time == eval_times[i]
           rounded == RoundedTime(eval_time)
           closest == BatchClosestTime(lookup, 1, rounded, 0)
           price == IF DictHas(lookup, rounded) THEN DictGet(lookup, rounded)
                    ELSE IF closest # 0 THEN lookup[closest][2]
                    ELSE NoPrice
       IN fetch_batch_answer(loaded, lookup, eval_times, i + 1,
                             (eval_time :> price) @@ result)

\* del d[k]
DictDel(f, k) == [x \in DOMAIN f \ {k} |-> f[x]]

\* list(ASSET_CSV_MAP.keys()): the order in which load_prices visits the assets
AssetOrder == <<"btc", "eth", "tao">>

\* the asset arguments of load_prices; "" stands for None (every asset)
LoadTargets == {"", "btc"}

NoTable == [shape |-> "ok", rows |-> <<>>]

\* _load_price_csv(a) on the files pf and the caches pc, lk, mt, from its
\* first line to `cls._price_cache[...] = df`.  status: "none" (unknown
\* asset or no file: None, nothing touched), "cached" (the cached table is
\* returned), "failed" (the file was read and None is returned), "read"
\* (the table is cached; the stat of the file and the index come next)
load_price_csv_read(a, pf, pc, lk, mt) ==
  LET cached_mtime == IF a \in DOMAIN mt THEN mt[a] ELSE 0
      stale == a \in DOMAIN pc /\ pf[a].mtime > cached_mtime
      cleared == DictDel(pc, a)
      lookups == IF stale THEN DictDel(lk, a) ELSE lk
      df == [shape |-> pf[a].shape, rows |-> pf[a].rows]
  IN IF a \notin ASSET_CSV_MAP \/ ~pf[a].exists
       THEN [status |-> "none", cache |-> pc, lookups |-> lk, df |-> NoTable]
     ELSE IF a \in DOMAIN pc /\ ~stale
       THEN [status |-> "cached", cache |-> pc, lookups |-> lk, df |-> pc[a]]
     ELSE IF df.shape \in {"garbled", "noclose"}
       THEN [status |-> "failed", cache |-> cleared, lookups |-> lookups, df |-> NoTable]
     ELSE [status |-> "read", cache |-> (a :> df) @@ cleared, lookups |-> lookups, df |-> df]

\* _load_price_csv(a) from `csv_file.stat().st_mtime` to its return, df being
\* the table it read: the mtime of the file as it is now, then the index,
\* which a table without a timestamp column does not get (None is returned)
load_price_csv_stat(a, df, pf, lk, mt) ==
  LET mtimes == IF pf[a].exists THEN (a :> pf[a].mtime) @@ mt ELSE mt
  IN IF df.shape = "notimestamp"
       THEN [mtimes |-> mtimes, lookups |-> lk, returned |-> FALSE]
       ELSE [mtimes |-> mtimes, lookups |-> (a :> BuildLookup(df.rows, 1, <<>>)) @@ lk,
             returned |-> TRUE]

\* load_prices: results[asset_name] for a table _load_price_csv returned
\* (returned = FALSE: it returned None)
LoadedCount(a, returned, df, lk) ==
  IF ~returned \/ df.rows = <<>> THEN 0
  ELSE IF a \in DOMAIN lk THEN Len(lk[a]) ELSE 0

\* the loop of load_prices over the assets still to load, up to its return
\* or to the next table read from disk (suspended: its stat comes next)
RECURSIVE load_prices_from(_, _, _, _, _, _)
load_prices_from(pending, results, pf, pc, lk, mt) ==
  IF pending = <<>>
    THEN [suspended |-> FALSE, results |-> results, cache |-> pc, lookups |-> lk,
          asset |-> "btc", df |-> NoTable, pending |-> <<>>]
  ELSE LET a == pending[1]
           r == load_price_csv_read(a, pf, pc, lk, mt)
       IN IF r.status = "read"
            THEN [suspended |-> TRUE, results |-> results, cache |-> r.cache,
                  lookups |-> r.lookups, asset |-> a, df |-> r.df,
                  pending |-> Tail(pending)]
            ELSE load_prices_from(Tail(pending),
                                  (a :> LoadedCount(a, r.status = "cached", r.df, r.lookups))
                                    @@ results,
                                  pf, r.cache, r.lookups, mt)

\* ================================================================ state
\* ------------------------------------------------------- Metrics Engine
\* the floats of the metrics are kept exact, as fractions <<numerator,
\* denominator>> in lowest terms with a positive denominator
MaxMetricLen == 3       \* length of the lists handed to the metrics

PredictionValues == {1, 2, 3}
ActualValues == {1, 2}
LowerValues == {2}
UpperValues == {3}

RECURSIVE GCD(_, _)
GCD(a, b) == IF b = 0 THEN a ELSE GCD(b, a % b)

Frac(n, d) ==
  IF n = 0 THEN <<0, 1>>
  ELSE LET g == GCD(Abs(n), d) IN <<n \div g, d \div g>>

FracAdd(x, y) == Frac(x[1] * y[2] + y[1] * x[2], x[2] * y[2])

\* x / y for a positive y, and x * k for an integer k
FracDiv(x, y) == Frac(x[1] * y[2], x[2] * y[1])
FracTimes(x, k) == Frac(x[1] * k, x[2])

\* ndarray.mean() of a sequence of fractions
RECURSIVE FracSum(_, _)
FracSum(xs, i) == IF i > Len(xs) THEN <<0, 1>> ELSE FracAdd(xs[i], FracSum(xs, i + 1))

mean(xs) == FracDiv(FracSum(xs, 1), <<Len(xs), 1>>)

\* a key the returned dict does not have; {} is the dict with no key at all,
\* 'n_predictions' included
NoMetric == <<>>
EmptyMetrics ==
  [n_predictions |-> NoMetric, mape |-> NoMetric, mae |-> NoMetric, rmse_squared |-> NoMetric,
   bias |-> NoMetric, bias_pct |-> NoMetric, coverage |-> NoMetric,
   avg_interval_width |-> NoMetric, avg_interval_width_pct |-> NoMetric]

metrics_of_MapeOverPredictions(predictions, actuals, intervals_lower, intervals_upper) ==
  LET n == Len(predictions)
      errors == [i \in 1..n |-> actuals[i] - predictions[i]]
      acts_mean == mean([i \in 1..n |-> <<actuals[i], 1>>])
      bias == mean([i \in 1..n |-> <<errors[i], 1>>])
      with_intervals == /\ intervals_lower # <<>> /\ intervals_upper # <<>>
                        /\ Len(intervals_lower) = Len(actuals)
                        /\ Len(intervals_upper) = Len(actuals)
      in_interval == {i \in 1..n : /\ actuals[i] >= intervals_lower[i]
                                   /\ actuals[i] <= intervals_upper[i]}
      avg_width == mean([i \in 1..n |-> <<intervals_upper[i] - intervals_lower[i], 1>>])
  IN [n_predictions |-> <<n, 1>>,
      mape |-> mean([i \in 1..n |-> Frac(Abs(errors[i]) * 100, predictions[i])]),
      mae |-> mean([i \in 1..n |-> <<Abs(errors[i]), 1>>]),
      rmse_squared |-> mean([i \in 1..n |-> <<errors[i] * errors[i], 1>>]),
      bias |-> bias,
      bias_pct |-> IF acts_mean # <<0, 1>> THEN FracTimes(FracDiv(bias, acts_mean), 100)
                   ELSE <<0, 1>>,
      coverage |-> IF with_intervals THEN Frac(Cardinality(in_interval) * 100, n)
                   ELSE NoMetric,
      avg_interval_width |-> IF with_intervals THEN avg_width ELSE NoMetric,
      avg_interval_width_pct |->
        IF ~with_intervals THEN NoMetric
        ELSE IF acts_mean # <<0, 1>> THEN FracTimes(FracDiv(avg_width, acts_mean), 100)
        ELSE <<0, 1>>]

\* the metrics of equally long, non-empty predictions and actuals; rmse is
\* kept as its square, the mean of the squared errors
metrics_of(predictions, actuals, intervals_lower, intervals_upper) ==
  LET n == Len(predictions)
      errors == [i \in 1..n |-> actuals[i] - predictions[i]]
      acts_mean == mean([i \in 1..n |-> <<actuals[i], 1>>])
      bias == mean([i \in 1..n |-> <<errors[i], 1>>])
      with_intervals == /\ intervals_lower # <<>> /\ intervals_upper # <<>>
                        /\ Len(intervals_lower) = Len(actuals)
                        /\ Len(intervals_upper) = Len(actuals)
      in_interval == {i \in 1..n : /\ actuals[i] >= intervals_lower[i]
                                   /\ actuals[i] <= intervals_upper[i]}
      avg_width == mean([i \in 1..n |-> <<intervals_upper[i] - intervals_lower[i], 1>>])
  IN [n_predictions |-> <<n, 1>>,
      mape |-> mean([i \in 1..n |-> Frac(Abs(errors[i]) * 100, actuals[i])]),
      mae |-> mean([i \in 1..n |-> <<Abs(errors[i]), 1>>]),
      rmse_squared |-> mean([i \in 1..n |-> <<errors[i] * errors[i], 1>>]),
      bias |-> bias,
      bias_pct |-> IF acts_mean # <<0, 1>> THEN FracTimes(FracDiv(bias, acts_mean), 100)
                   ELSE <<0, 1>>,
      coverage |-> IF with_intervals THEN Frac(Cardinality(in_interval) * 100, n)
                   ELSE NoMetric,
      avg_interval_width |-> IF with_intervals THEN avg_width ELSE NoMetric,
      avg_interval_width_pct |->
        IF ~with_intervals THEN NoMetric
        ELSE IF acts_mean # <<0, 1>> THEN FracTimes(FracDiv(avg_width, acts_mean), 100)
        ELSE <<0, 1>>]

min(a, b) == IF a < b THEN a ELSE b

calculate_prediction_metrics_FailOnMismatch(predictions, actuals, intervals_lower, intervals_upper) ==
  IF predictions = <<>> \/ actuals = <<>> \/ Len(predictions) # Len(actuals) THEN EmptyMetrics
  ELSE metrics_of(predictions, actuals, intervals_lower, intervals_upper)

\* MetricsCalculator.calculate_prediction_metrics
calculate_prediction_metrics(predictions, actuals, intervals_lower, intervals_upper) ==
  IF predictions = <<>> \/ actuals = <<>> THEN EmptyMetrics
  ELSE LET min_len == min(Len(predictions), Len(actuals))
       IN metrics_of(SubSeq(predictions, 1, min_len), SubSeq(actuals, 1, min_len),
                     intervals_lower, intervals_upper)

\* ------------------------------------------------------------ Query API
\* rows of a miner's CSV as _read_miner_csv returns them: observed_at, the
\* asset's prediction and its interval_lower; an empty cell reads as NaN
MaxCsvRows == 2         \* rows of a miner CSV a query reads
NaN == 0

CsvRows == [timestamp : Timestamps, prediction : {NaN, 1, 2}, interval_lower : {NaN, 1}]

Limits == {1, 2}

\* GroupBy.first() for one column: the first non-null entry among the rows
\* of the group, NaN when the group has none
first_in_group(rows, ts, col) ==
  LET valid == SelectSeq(rows, LAMBDA r : r.timestamp = ts /\ r[col] # NaN)
  IN IF valid = <<>> THEN NaN ELSE valid[1][col]

\* df.groupby(timestamp_col).first().reset_index(): one row per timestamp,
\* group keys ascending
RECURSIVE groupby_first_from(_, _)
groupby_first_from(rows, keys) ==
  IF keys = {} THEN <<>>
  ELSE LET ts == CHOOSE k \in keys : \A o \in keys : k <= o
       IN <<[timestamp |-> ts,
             prediction |-> first_in_group(rows, ts, "prediction"),
             interval_lower |-> first_in_group(rows, ts, "interval_lower")]>>
          \o groupby_first_from(rows, keys \ {ts})

groupby_first(rows) == groupby_first_from(rows, {rows[i].timestamp : i \in 1..Len(rows)})

Reversed(s) == [i \in 1..Len(s) |-> s[Len(s) + 1 - i]]

head(s, n) == SubSeq(s, 1, IF n < Len(s) THEN n ELSE Len(s))

\* get_predictions: one row per timestamp, most recent first, at most limit
get_predictions(rows, limit) ==
  IF rows = <<>> THEN <<>> ELSE head(Reversed(groupby_first(rows)), limit)

\* get_asset_data without a time range: the same rows, oldest first
get_asset_data(rows, limit) ==
  IF rows = <<>> THEN <<>> ELSE Reversed(head(Reversed(groupby_first(rows)), limit))

\* the asset_name arguments of get_asset_data
AssetNames == {"btc", "tao"}

\* api_asset_map.get(asset_name.lower(), asset_name.lower())
api_asset_map(asset_name) ==
  IF asset_name \in {"tao", "tao_bittensor"} THEN "tao" ELSE asset_name

\* eval_time = pred_time + timedelta(hours=1), in the seconds the price
\* files count; consecutive timestamps of a miner CSV are 5 minutes apart
EvaluationTime(ts) == (ts - 1) * 300 + 3600

\* datetime.now(timezone.utc) of a request: before every evaluation time,
\* between the two, after both
Nows == {0, 3600, 7200}

\* PriceFetcher.get_price_at_time(api_asset, eval_time) run to its return on
\* files that are not rewritten meanwhile: the caches it leaves and its answer
get_price_at_time(asset, eval_time, pf, pc, lk, mt) ==
  LET a == asset_map(asset)
      r == load_price_csv_read(a, pf, pc, lk, mt)
      st == load_price_csv_stat(a, r.df, pf, r.lookups, mt)
      lookup(lookups) == IF a \in DOMAIN lookups THEN lookups[a] ELSE <<>>
  IN IF r.status = "read"
       THEN [cache |-> r.cache, lookups |-> st.lookups, mtimes |-> st.mtimes,
             price |-> get_price_answer(st.returned /\ r.df.rows # <<>>,
                                        lookup(st.lookups), eval_time)]
       ELSE [cache |-> r.cache, lookups |-> r.lookups, mtimes |-> mt,
             price |-> get_price_answer(r.status = "cached" /\ r.df.rows # <<>>,
                                        lookup(r.lookups), eval_time)]

\* the loop of get_asset_data over rows_to_process from row i on: the
\* actual_price of each row (None for an evaluation time still to come) and
\* the caches the lookups leave; calls: the get_price_at_time calls made,
\* as <<eval_time, answer>>
RECURSIVE actual_prices_from(_, _, _, _, _, _, _, _, _)
actual_prices_from(rows, i, api_asset, now, pf, pc, lk, mt, done) ==
  IF i > Len(rows)
    THEN [actual_prices |-> done.actual_prices, calls |-> done.calls,
          cache |-> pc, lookups |-> lk, mtimes |-> mt]
  ELSE IF EvaluationTime(rows[i].timestamp) <= now
    THEN LET g == get_price_at_time(api_asset, EvaluationTime(rows[i].timestamp),
                                    pf, pc, lk, mt)
         IN actual_prices_from(rows, i + 1, api_asset, now, pf, g.cache, g.lookups, g.mtimes,
                               [actual_prices |-> Append(done.actual_prices, g.price),
                                calls |-> Append(done.calls,
                                                 <<EvaluationTime(rows[i].timestamp),
                                                   g.price>>)])
  ELSE actual_prices_from(rows, i + 1, api_asset, now, pf, pc, lk, mt,
                          [actual_prices |-> Append(done.actual_prices, NoPrice),
                           calls |-> done.calls])

VARIABLES
  miner_data,        \* DataManager.miner_data: miner name -> DataFrame
  miner_stats,       \* DataManager.miner_stats: miner name -> summary
  last_merged,       \* the miner of the latest update_miner_data call
  old_df, new_df,    \* arguments of a CSVParser.get_new_rows call
  diff_out,          \* its result
  diff_done,         \* whether the call has been made
  query_df,          \* the miner CSV a query endpoint reads
  query_limit,       \* the endpoint's limit parameter
  query_out,         \* the endpoint's answer: which endpoint, and its rows
  metric_args,       \* arguments of a calculate_prediction_metrics call
  metric_out,        \* its result
  metric_done,       \* whether the call has been made
  price_file,        \* asset -> the reference price file on disk
  clock,             \* the file system's time: the mtime of the latest write
  price_cache,       \* PriceCSVLoader._price_cache: asset -> DataFrame
  price_lookup_cache,\* PriceCSVLoader._price_lookup_cache: asset -> dict
  file_mtime_cache,  \* PriceCSVLoader._file_mtime_cache: asset -> mtime
  price_op,          \* the call suspended between read_csv and stat
  price_result,      \* the latest call's return value
  price_waiting,     \* a resolve request received during a rebuild, not yet begun
  csv_lines,         \* the data lines of the watched miner's log on disk
  csv_exists,        \* whether the log is there to be read
  last_size,         \* FileWatcher.last_size
  last_mtime,        \* FileWatcher.last_mtime
  last_df,           \* FileWatcher.last_df: <<>> for None, else <<DataFrame>>
  running,           \* FileWatcher.running
  task,              \* whether FileWatcher._task is a live _watch_loop task
  stop_op,           \* the stop() calls suspended in 'await self._task'
  active_connections,\* the connected WebSockets
  last_cycle         \* what the read/diff/notify cycle that just ran did

storeVars == <<miner_data, miner_stats, last_merged>>
diffVars == <<old_df, new_df, diff_out, diff_done>>
queryVars == <<query_df, query_limit, query_out>>
metricVars == <<metric_args, metric_out, metric_done>>
priceVars == <<price_file, clock, price_cache, price_lookup_cache, file_mtime_cache,
               price_op, price_result, price_waiting>>
watchVars == <<csv_lines, csv_exists, last_size, last_mtime, last_df, running, task, stop_op,
               active_connections, last_cycle>>
vars == <<storeVars, diffVars, queryVars, metricVars, priceVars, watchVars>>

NoMiner == "none"

\* DataManager.__init__
InitStoreVars ==
  /\ miner_data = <<>>
  /\ miner_stats = <<>>
  /\ last_merged = NoMiner

DiffIdle ==
  /\ old_df = EmptyDataFrame
  /\ new_df = EmptyDataFrame
  /\ diff_out = [raised |-> FALSE, df |-> EmptyDataFrame]
  /\ diff_done = FALSE

NoAnswer == [endpoint |-> "none", rows |-> <<>>, asset |-> "", actual_prices |-> <<>>]

QueryIdle ==
  /\ query_df = <<>>
  /\ query_limit = 1
  /\ query_out = NoAnswer

NoArgs == [predictions |-> <<>>, actuals |-> <<>>, intervals_lower |-> <<>>,
           intervals_upper |-> <<>>]

\* the call evaluate([100,100], [110,90], [90,80], [110,100])
ExampleArgs == [predictions |-> <<100, 100>>, actuals |-> <<110, 90>>,
                intervals_lower |-> <<90, 80>>, intervals_upper |-> <<110, 100>>]

MetricIdle ==
  /\ metric_args = NoArgs
  /\ metric_out = EmptyMetrics
  /\ metric_done = FALSE

IdleOp == [kind |-> "idle", asset |-> "btc", eval_times |-> <<>>,
           df |-> [shape |-> "ok", rows |-> <<>>], began |-> 0, replaced |-> <<>>,
           target |-> "", pending |-> <<>>, results |-> <<>>]

NoResult == [kind |-> "none", asset |-> "btc", eval_times |-> <<>>, out |-> <<>>, began |-> 0]

\* state: "waiting" from the moment the request for get_price_at_time(asset,
\* eval_time) is received, while another call is inside _load_price_csv,
\* until the event loop begins the call; "served" in the state that call
\* returned into.  replaced: the asset's index as it was before the rebuild.
NoWaiting == [state |-> "none", asset |-> "btc", eval_time |-> 0, replaced |-> <<>>]

\* the instants a waiting request asks for
WaitingTimes == {600, 900}

\* the class attributes of PriceCSVLoader; tao's reference file is on disk,
\* btc's is not written yet
InitPriceVars ==
  /\ price_file = [a \in ASSET_CSV_MAP |->
                     IF a # "tao" THEN NoFile
                     ELSE [exists |-> TRUE, mtime |-> 1, shape |-> "ok",
                           rows |-> << <<600, 1>> >>]]
  /\ clock = 1
  /\ price_cache = <<>>
  /\ price_lookup_cache = <<>>
  /\ file_mtime_cache = <<>>
  /\ price_op = IdleOp
  /\ price_result = NoResult
  /\ price_waiting = NoWaiting

Connections == {"ws1"}

\* prior: <<>> until some cycle has read the log, then <<the lines it read>>
NoCycle == [kind |-> "none", prior |-> <<>>, lines |-> <<>>, read |-> FALSE,
            emitted |-> <<>>, merges |-> 0, publishes |-> 0, raised |-> FALSE,
            reported |-> "none", awaited |-> {},
            stopped |-> FALSE, failed_ticks |-> 0, wait |-> 0]

PriorRead == IF last_cycle.read THEN <<last_cycle.lines>> ELSE last_cycle.prior

\* the record once the world has moved on from the cycle: what later cycles
\* are compared with (the lines last read, the run of failed ticks, whether
\* stop() returned last) is kept, the cycle's own outcome is not
Archived == [NoCycle EXCEPT !.prior = PriorRead,
                            !.failed_ticks = last_cycle.failed_ticks,
                            !.stopped = last_cycle.stopped]

\* the stop() calls that may be in flight at the same time
StopCalls == {1, 2}

\* awaiting: one entry for each polling task that was asked to cancel and
\* has not ended yet, oldest first, the number of stop() calls suspended in
\* 'await self._task' on it; resumable: the stop() calls whose task has
\* ended and which have not resumed yet
NoStops == [awaiting |-> <<>>, resumable |-> 0]

RECURSIVE SumOf(_, _)
SumOf(ns, i) == IF i = 0 THEN 0 ELSE ns[i] + SumOf(ns, i - 1)

\* the stop() calls that have begun and not returned
PendingStops == SumOf(stop_op.awaiting, Len(stop_op.awaiting)) + stop_op.resumable

\* FileWatcher.__init__, the log holding its header line only
InitWatchVars ==
  /\ csv_lines = <<>>
  /\ csv_exists = TRUE
  /\ last_size = NoStat
  /\ last_mtime = NoStat
  /\ last_df = <<>>
  /\ running = FALSE
  /\ task = FALSE
  /\ stop_op = NoStops
  /\ active_connections = {}
  /\ last_cycle = NoCycle

\* line sequences of at most n lines over the alphabet `lines`
RECURSIVE SeqsUpTo(_, _)
SeqsUpTo(lines, n) ==
  IF n = 0 THEN {<<>>}
  ELSE LET shorter == SeqsUpTo(lines, n - 1)
       IN shorter \cup {Append(s, l) : s \in {t \in shorter : Len(t) = n - 1}, l \in lines}

\* decoded texts that start with the header line
KeyedFrames == {parse_csv(<<HeaderLine>> \o body) : body \in SeqsUpTo(DataLines, MaxDeltaRows)}

\* decoded texts whose first line is a data line (a tail that lost the header)
HeaderlessFrames ==
  {parse_csv(<<h>> \o body) : h \in DataLines, body \in SeqsUpTo(DataLines, MaxDeltaRows)}

Snapshots == KeyedFrames \cup HeaderlessFrames

\* decoded logs in which the miner wrote a row again: first with text for
\* its prediction, then with the number
RewrittenFrames ==
  {parse_csv(<<HeaderLine, <<1, 1>>, <<2, NonNumeric>>, <<2, 1>>>>),
   parse_csv(<<HeaderLine, <<2, NonNumeric>>, <<2, 1>>, <<1, 2>>>>)}

\* ------------------------------------------------- Series Store actions
\* await data_manager.update_miner_data(miner_name, df): the lock is free
\* whenever it is requested (its holder never suspends), so the call runs
\* to completion in one step
Merge(miner_name, df, one_hour_ago) ==
  LET r == update_miner_data(miner_data, miner_stats, miner_name, df, one_hour_ago)
  IN /\ miner_data' = r.data
     /\ miner_stats' = r.stats
     /\ last_merged' = miner_name

MergeCall == \E miner_name \in Sources, df \in KeyedFrames \cup RewrittenFrames,
                one_hour_ago \in OneHourAgos :
               Merge(miner_name, df, one_hour_ago) /\ UNCHANGED <<diffVars, queryVars, metricVars, priceVars, watchVars>>

InitStore == InitStoreVars /\ DiffIdle /\ QueryIdle /\ MetricIdle /\ InitPriceVars /\ InitWatchVars
NextStore == MergeCall
SpecStore == InitStore /\ [][NextStore]_vars

\* ---------------------------------------------------- Row Codec actions
InitDiff ==
  /\ InitStoreVars
  /\ QueryIdle
  /\ MetricIdle
  /\ InitPriceVars
  /\ InitWatchVars
  /\ old_df \in Snapshots \cup {EmptyDataFrame}
  /\ new_df \in Snapshots \cup {EmptyDataFrame}
  /\ diff_out = [raised |-> FALSE, df |-> EmptyDataFrame]
  /\ diff_done = FALSE

GetNewRowsCall ==
  /\ ~diff_done
  /\ diff_out' = get_new_rows(old_df, new_df)
  /\ diff_done' = TRUE
  /\ UNCHANGED <<old_df, new_df, storeVars, queryVars, metricVars, priceVars, watchVars>>

NextDiff == GetNewRowsCall
SpecDiff == InitDiff /\ [][NextDiff]_vars

\* ----------------------------------------------------- Query API actions
InitQuery ==
  /\ InitStoreVars
  /\ DiffIdle
  /\ MetricIdle
  /\ InitPriceVars
  /\ InitWatchVars
  /\ query_df \in SeqsUpTo(CsvRows, MaxCsvRows)
  /\ query_limit \in Limits
  /\ query_out = NoAnswer

GetPredictions ==
  /\ query_out' = [NoAnswer EXCEPT !.endpoint = "predictions",
                                   !.rows = get_predictions(query_df, query_limit)]
  /\ UNCHANGED <<query_df, query_limit, storeVars, diffVars, metricVars, priceVars, watchVars>>

\* get_asset_data(miner_name, asset_name, limit): the rows, most recent
\* first, each with the actual price get_price_at_time finds for its
\* evaluation time, which loads the asset's reference prices into the cache
GetAssetData ==
  \E asset_name \in AssetNames, now \in Nows :
    LET processed == Reversed(get_asset_data(query_df, query_limit))
        p == actual_prices_from(processed, 1, api_asset_map(asset_name), now, price_file,
                                price_cache, price_lookup_cache, file_mtime_cache,
                                [actual_prices |-> <<>>, calls |-> <<>>])
    IN /\ query_out' = [endpoint |-> "asset", rows |-> Reversed(processed),
                        asset |-> asset_name, actual_prices |-> Reversed(p.actual_prices)]
       /\ price_cache' = p.cache
       /\ price_lookup_cache' = p.lookups
       /\ file_mtime_cache' = p.mtimes
       /\ price_result' =
            IF p.calls = <<>> THEN price_result
            ELSE [kind |-> "resolve", asset |-> api_asset_map(asset_name),
                  eval_times |-> <<p.calls[Len(p.calls)][1]>>, began |-> clock,
                  out |-> (p.calls[Len(p.calls)][1] :> p.calls[Len(p.calls)][2])]
       /\ UNCHANGED <<query_df, query_limit, price_file, clock, price_op, price_waiting,
                      storeVars, diffVars, metricVars, watchVars>>

NextQuery == GetPredictions \/ GetAssetData
SpecQuery == InitQuery /\ [][NextQuery]_vars

\* ------------------------------------------------ Metrics Engine actions
InitMetrics ==
  /\ InitStoreVars
  /\ DiffIdle
  /\ QueryIdle
  /\ InitPriceVars
  /\ InitWatchVars
  /\ metric_args \in [predictions : SeqsUpTo(PredictionValues, MaxMetricLen),
                       actuals : SeqsUpTo(ActualValues, MaxMetricLen),
                       intervals_lower : SeqsUpTo(LowerValues, MaxMetricLen),
                       intervals_upper : SeqsUpTo(UpperValues, MaxMetricLen)]
                      \cup {ExampleArgs, [ExampleArgs EXCEPT !.intervals_lower = <<>>,
                                                             !.intervals_upper = <<>>]}
  /\ metric_out = EmptyMetrics
  /\ metric_done = FALSE

Evaluate ==
  /\ ~metric_done
  /\ metric_out' = calculate_prediction_metrics(metric_args.predictions, metric_args.actuals,
                                                metric_args.intervals_lower,
                                                metric_args.intervals_upper)
  /\ metric_done' = TRUE
  /\ UNCHANGED <<metric_args, storeVars, diffVars, queryVars, priceVars, watchVars>>

NextMetrics == Evaluate
SpecMetrics == InitMetrics /\ [][NextMetrics]_vars

\* --------------------------------------------------- Price Cache actions
CachedMtime(a) == IF a \in DOMAIN file_mtime_cache THEN file_mtime_cache[a] ELSE 0

LookupOf(lk, a) == IF a \in DOMAIN lk THEN lk[a] ELSE <<>>

\* _load_price_csv up to the read: what the checks before pd.read_csv decide
LoadCheck(a) ==
  IF a \notin ASSET_CSV_MAP THEN "unknown"
  ELSE IF ~price_file[a].exists THEN "missing"
  ELSE IF a \notin DOMAIN price_cache THEN "absent"
  ELSE IF price_file[a].mtime <= CachedMtime(a) THEN "cached"
  ELSE "stale"

\* the value a call returns once _load_price_csv has returned
Answer(kind, asset, eval_times, loaded, lookup, began) ==
  [kind |-> kind, asset |-> asset, eval_times |-> eval_times, began |-> began,
   out |-> IF kind = "resolve"
             THEN (eval_times[1] :> get_price_answer(loaded, lookup, eval_times[1]))
             ELSE fetch_batch_answer(loaded, lookup, eval_times, 1, <<>>)]

\* a call runs from its first line to its return without a suspension point
\* (the loader awaits nothing), so none begins while another is in
\* _load_price_csv
CallMayBegin_Anytime == TRUE

CallMayBegin == price_op.kind = "idle"

\* get_price_at_time / fetch_prices_batch from the call to the return, or to
\* the point after pd.read_csv where the file is stat'ed again
PriceCall(kind, asset, eval_times) ==
  LET a == asset_map(asset)
      chk == LoadCheck(a)
  IN /\ CallMayBegin
     /\ UNCHANGED <<price_file, clock, file_mtime_cache>>
     /\ IF kind = "batch" /\ eval_times = <<>>
          THEN /\ price_result' = [NoResult EXCEPT !.kind = kind, !.asset = asset,
                                                   !.began = clock]
               /\ UNCHANGED <<price_cache, price_lookup_cache, price_op>>
        ELSE IF chk \in {"unknown", "missing"}
          THEN /\ price_result' = Answer(kind, asset, eval_times, FALSE, <<>>, clock)
               /\ UNCHANGED <<price_cache, price_lookup_cache, price_op>>
        ELSE IF chk = "cached"
          THEN /\ price_result' = Answer(kind, asset, eval_times,
                                         price_cache[a].rows # <<>>,
                                         LookupOf(price_lookup_cache, a), clock)
               /\ UNCHANGED <<price_cache, price_lookup_cache, price_op>>
        ELSE LET cleared == DictDel(price_cache, a)
                 lookups == IF chk = "stale" THEN DictDel(price_lookup_cache, a)
                            ELSE price_lookup_cache
                 df == [shape |-> price_file[a].shape, rows |-> price_file[a].rows]
             IN /\ price_lookup_cache' = lookups
                /\ IF df.shape \in {"garbled", "noclose"}
                     THEN /\ price_cache' = cleared
                          /\ price_result' = Answer(kind, asset, eval_times, FALSE, <<>>, clock)
                          /\ UNCHANGED price_op
                     ELSE /\ price_cache' = (a :> df) @@ cleared
                          /\ price_op' = [kind |-> kind, asset |-> asset,
                                          eval_times |-> eval_times, df |-> df,
                                          began |-> clock,
                                          replaced |-> LookupOf(price_lookup_cache, a),
                                          target |-> asset, pending |-> <<>>,
                                          results |-> <<>>]
                          /\ price_result' = NoResult

\* _load_price_csv from `csv_file.stat().st_mtime` after the read to the
\* return, then the caller's lookup
FinishLoad ==
  LET a == asset_map(price_op.asset)
      df == price_op.df
      built == (a :> BuildLookup(df.rows, 1, <<>>)) @@ price_lookup_cache
  IN /\ price_op.kind \in {"resolve", "batch"}
     /\ file_mtime_cache' = IF price_file[a].exists
                              THEN (a :> price_file[a].mtime) @@ file_mtime_cache
                              ELSE file_mtime_cache
     /\ IF df.shape = "notimestamp"
          THEN /\ UNCHANGED price_lookup_cache
               /\ price_result' = Answer(price_op.kind, price_op.asset, price_op.eval_times,
                                         FALSE, <<>>, price_op.began)
          ELSE /\ price_lookup_cache' = built
               /\ price_result' = Answer(price_op.kind, price_op.asset, price_op.eval_times,
                                         df.rows # <<>>, built[a], price_op.began)
     /\ price_op' = IdleOp
     /\ UNCHANGED <<price_file, clock, price_cache>>

\* the record of a request that was served is dropped by the next step
WaitingAfter == IF price_waiting.state = "served" THEN NoWaiting ELSE price_waiting

Resolve == \E asset \in QueryAssets, t \in EvalTimes :
             /\ PriceCall("resolve", asset, <<t>>)
             /\ price_waiting' = WaitingAfter
             /\ UNCHANGED <<storeVars, diffVars, queryVars, metricVars, watchVars>>

ResolveBatch == \E asset \in QueryAssets, ts \in BatchInputs :
                  /\ PriceCall("batch", asset, ts)
                  /\ price_waiting' = WaitingAfter
                  /\ UNCHANGED <<storeVars, diffVars, queryVars, metricVars, watchVars>>

LoadReturns ==
  /\ FinishLoad
  /\ price_waiting' = WaitingAfter
  /\ UNCHANGED <<storeVars, diffVars, queryVars, metricVars, watchVars>>

\* a request for get_price_at_time on an asset is received while a call is
\* rebuilding that asset's populated index: the event loop is inside the
\* rebuilding call, which awaits nothing, so the request waits
ResolveArrives ==
  \E t \in WaitingTimes :
    /\ price_op.kind # "idle"
    /\ price_op.replaced # <<>>
    /\ price_waiting.state # "waiting"
    /\ price_waiting' = [state |-> "waiting", asset |-> price_op.asset, eval_time |-> t,
                         replaced |-> price_op.replaced]
    /\ UNCHANGED <<price_file, clock, price_cache, price_lookup_cache, file_mtime_cache,
                   price_op, price_result,
                   storeVars, diffVars, queryVars, metricVars, watchVars>>

\* the event loop begins the waiting call, once no call is running
ResolveWaiting ==
  /\ price_waiting.state = "waiting"
  /\ PriceCall("resolve", price_waiting.asset, <<price_waiting.eval_time>>)
  /\ price_waiting' = IF price_op'.kind = "idle"
                        THEN [price_waiting EXCEPT !.state = "served"]
                        ELSE NoWaiting
  /\ UNCHANGED <<storeVars, diffVars, queryVars, metricVars, watchVars>>

\* the state load_prices leaves when its loop suspends or returns
LoadPricesTo(asset, run, began) ==
  /\ price_cache' = run.cache
  /\ price_lookup_cache' = run.lookups
  /\ IF run.suspended
       THEN /\ price_op' = [kind |-> "load", asset |-> run.asset, eval_times |-> <<>>,
                            df |-> run.df, began |-> began,
                            replaced |-> LookupOf(price_lookup_cache, run.asset),
                            target |-> asset, pending |-> run.pending,
                            results |-> run.results]
            /\ price_result' = NoResult
       ELSE /\ price_op' = IdleOp
            /\ price_result' = [NoResult EXCEPT !.kind = "load", !.asset = asset,
                                                !.out = run.results, !.began = began]

\* PriceCSVLoader.load_prices(asset) from the call to its return, or to the
\* point after a pd.read_csv where the file is stat'ed again
load_prices(asset) ==
  /\ CallMayBegin
  /\ LoadPricesTo(asset,
                  load_prices_from(IF asset = "" THEN AssetOrder ELSE <<asset>>, <<>>,
                                   price_file, price_cache, price_lookup_cache,
                                   file_mtime_cache),
                  clock)
  /\ UNCHANGED <<price_file, clock, file_mtime_cache>>

\* load_prices from the stat after a read: the mtime, the index and the
\* count of that asset, then the assets left
load_prices_resumes ==
  LET a == price_op.asset
      st == load_price_csv_stat(a, price_op.df, price_file, price_lookup_cache,
                                file_mtime_cache)
      results == (a :> LoadedCount(a, st.returned, price_op.df, st.lookups))
                   @@ price_op.results
  IN /\ price_op.kind = "load"
     /\ file_mtime_cache' = st.mtimes
     /\ LoadPricesTo(price_op.target,
                     load_prices_from(price_op.pending, results, price_file, price_cache,
                                      st.lookups, st.mtimes),
                     price_op.began)
     /\ UNCHANGED <<price_file, clock>>

LoadPrices == \E asset \in LoadTargets :
                /\ load_prices(asset)
                /\ price_waiting' = WaitingAfter
                /\ UNCHANGED <<storeVars, diffVars, queryVars, metricVars, watchVars>>

LoadPricesResumes ==
  /\ load_prices_resumes
  /\ price_waiting' = WaitingAfter
  /\ UNCHANGED <<storeVars, diffVars, queryVars, metricVars, watchVars>>

\* PriceCSVLoader.clear_cache(asset); asset = "" stands for None
clear_cache(asset) ==
  /\ price_op.kind = "idle"
  /\ IF asset # ""
       THEN /\ price_cache' = DictDel(price_cache, asset)
            /\ price_lookup_cache' = DictDel(price_lookup_cache, asset)
            /\ file_mtime_cache' = DictDel(file_mtime_cache, asset)
       ELSE /\ price_cache' = <<>>
            /\ price_lookup_cache' = <<>>
            /\ file_mtime_cache' = <<>>
  /\ price_result' = [NoResult EXCEPT !.kind = "reset", !.asset = asset]
  /\ UNCHANGED <<price_file, clock, price_op>>

Reset == \E asset \in QueryAssets \cup {"tao", ""} :
           /\ clear_cache(asset)
           /\ price_waiting' = WaitingAfter
           /\ UNCHANGED <<storeVars, diffVars, queryVars, metricVars, watchVars>>

\* the producer of the reference prices rewrites an asset's file
FileWrite ==
  \E a \in RewrittenAssets, v \in PriceVersions :
    /\ clock <= MaxWrites
    /\ clock' = clock + 1
    /\ price_file' = [price_file EXCEPT ![a] = [exists |-> TRUE, mtime |-> clock + 1,
                                                shape |-> v.shape, rows |-> v.rows]]
    /\ price_waiting' = WaitingAfter
    /\ UNCHANGED <<price_cache, price_lookup_cache, file_mtime_cache, price_op, price_result,
                   storeVars, diffVars, queryVars, metricVars, watchVars>>

InitPrice == InitStoreVars /\ DiffIdle /\ QueryIdle /\ MetricIdle /\ InitPriceVars /\ InitWatchVars
NextPrice == Resolve \/ ResolveBatch \/ LoadReturns \/ LoadPrices \/ LoadPricesResumes
               \/ ResolveArrives \/ ResolveWaiting
               \/ Reset \/ FileWrite
SpecPrice == InitPrice /\ [][NextPrice]_vars

\* --------------------------------------------- Ingestion Watcher actions
\* whether open() and readlines() succeed in a cycle: any read of an
\* existing file may raise OSError
Readable(kind) == BOOLEAN

\* the lines the miner appends between _check_for_updates' stat() and the
\* open() of _read_and_process: none, or one more line
RacingAppends ==
  {<<>>} \cup {<<l>> : l \in {f \in FileLines :
                               /\ csv_exists
                               /\ Len(csv_lines) < MaxFileRows
                               /\ csv_lines # <<>> => f[1] >= csv_lines[Len(csv_lines)][1]}}

\* what happens to the log between _check_for_updates' stat() and the
\* exists() of _read_and_process: nothing, an append, or the log is moved away
RacingChanges ==
  {[appended |-> a, moved |-> FALSE] : a \in RacingAppends}
    \cup {[appended |-> <<>>, moved |-> TRUE]}

\* failed ticks in a row (no start() or manual_fetch() in between) up to
\* and including the present one: none (0), a first one (1), or one that
\* follows a failed tick (2)
FailedTicks(failed) ==
  IF ~failed THEN 0
  ELSE IF last_cycle.failed_ticks = 0 THEN 1
  ELSE 2

\* the sleep of _watch_loop after _check_for_updates, in poll intervals:
\* the normal one when it returned, the doubled one when it raised
watch_loop_sleep(escaped) == IF escaped THEN 2 ELSE 1

\* what _read_and_process may do on the log as it is at its exists() and
\* open(): the read succeeds or raises, and the merge's statistics see the
\* clock of the call
CycleOutcomes(kind, exists, lines) ==
  {read_and_process(miner_data, miner_stats, last_df, active_connections,
                    exists, readable, lines, one_hour_ago) :
     readable \in Readable(kind), one_hour_ago \in OneHourAgos}

\* one read/diff/notify cycle and its record
Cycle(kind, r, lines) ==
  /\ miner_data' = r.data
  /\ miner_stats' = r.stats
  /\ last_merged' = IF r.merges > 0 THEN WatchedMiner ELSE last_merged
  /\ last_df' = r.last_df
  /\ last_cycle' = [kind |-> kind, prior |-> PriorRead, lines |-> lines,
                    read |-> r.read, emitted |-> r.emitted, merges |-> r.merges,
                    publishes |-> r.publishes, raised |-> r.raised,
                    reported |-> IF kind = "manual" THEN manual_fetch(r) ELSE "none",
                    awaited |-> r.awaited,
                    stopped |-> FALSE,
                    failed_ticks |-> IF kind = "tick" THEN FailedTicks(r.raised) ELSE 0,
                    wait |-> IF kind = "tick" THEN watch_loop_sleep(r.escaped) ELSE 0]

\* FileWatcher.start: the initial load, then the polling task.  Run while a
\* stop() awaits the task it cancelled, it leaves self._task a new task: the
\* cancelled one is no longer self._task and ends as before.
Start ==
  /\ ~running
  /\ running' = TRUE
  /\ \E r \in CycleOutcomes("start", csv_exists, csv_lines) : Cycle("start", r, csv_lines)
  /\ task' = TRUE
  /\ UNCHANGED <<csv_lines, csv_exists, last_size, last_mtime, stop_op, active_connections,
                 diffVars, queryVars, metricVars, priceVars>>

\* FileWatcher.stop on a watcher with no live polling task (never started:
\* self._task is None; or its task has ended: cancel() does nothing and
\* awaiting the finished task does not suspend): running is cleared and
\* stop() returns in the same step
StopAtOnce ==
  /\ ~task
  /\ running' = FALSE
  /\ last_cycle' = [last_cycle EXCEPT !.stopped = TRUE]
  /\ UNCHANGED <<csv_lines, csv_exists, last_size, last_mtime, last_df, task, stop_op,
                 active_connections,
                 storeVars, diffVars, queryVars, metricVars, priceVars>>

\* FileWatcher.stop while self._task is alive, up to 'await self._task':
\* running is cleared, the task is asked to cancel and stop() is suspended
\* on it.  The task is the one a running watcher polls with, or one that an
\* earlier stop() already asked to cancel and that has not ended yet.
StopBegins ==
  /\ task
  /\ PendingStops < Cardinality(StopCalls)
  /\ running' = FALSE
  /\ last_cycle' = Archived
  /\ stop_op' = [stop_op EXCEPT !.awaiting =
                    IF running THEN Append(@, 1)
                    ELSE [@ EXCEPT ![Len(@)] = @ + 1]]
  /\ UNCHANGED <<csv_lines, csv_exists, last_size, last_mtime, last_df, task,
                 active_connections,
                 storeVars, diffVars, queryVars, metricVars, priceVars>>

\* the task that was asked to cancel first gets CancelledError in its sleep
\* and ends; the stop() calls awaiting it become resumable.  It is
\* self._task unless a start() has replaced it since.
TaskCancelled ==
  /\ stop_op.awaiting # <<>>
  /\ last_cycle' = Archived
  /\ task' = (task /\ (running \/ Len(stop_op.awaiting) > 1))
  /\ stop_op' = [awaiting |-> Tail(stop_op.awaiting),
                 resumable |-> stop_op.resumable + Head(stop_op.awaiting)]
  /\ UNCHANGED <<csv_lines, csv_exists, last_size, last_mtime, last_df, running,
                 active_connections,
                 storeVars, diffVars, queryVars, metricVars, priceVars>>

\* a stop() resumes after its await and returns; last_cycle notes that
\* stop() was the latest operation to return
StopReturns ==
  /\ stop_op.resumable > 0
  /\ stop_op' = [stop_op EXCEPT !.resumable = @ - 1]
  /\ last_cycle' = [Archived EXCEPT !.stopped = TRUE]
  /\ UNCHANGED <<csv_lines, csv_exists, last_size, last_mtime, last_df, running, task,
                 active_connections,
                 storeVars, diffVars, queryVars, metricVars, priceVars>>

\* one iteration of _watch_loop: _check_for_updates, then the sleep.  The
\* size and mtime are those of the file at stat(); the content is that of the
\* file at the exists() and open() of _read_and_process, which the miner may
\* have appended to, or which may have been moved away, meanwhile.
Tick ==
  /\ task /\ running
  /\ IF ~csv_exists
       THEN /\ last_cycle' = [NoCycle EXCEPT !.kind = "tick", !.prior = PriorRead,
                                             !.lines = csv_lines,
                                             !.failed_ticks = FailedTicks(TRUE),
                                             !.wait = watch_loop_sleep(FALSE)]
            /\ UNCHANGED <<csv_lines, csv_exists, last_size, last_mtime, last_df, storeVars>>
     ELSE IF StatSize(csv_lines) # last_size \/ StatMtime(csv_lines) # last_mtime
       THEN /\ \E raced \in RacingChanges :
                 /\ csv_lines' = csv_lines \o raced.appended
                 /\ csv_exists' = ~raced.moved
                 /\ \E r \in CycleOutcomes("tick", ~raced.moved, csv_lines \o raced.appended) :
                      Cycle("tick", r, csv_lines \o raced.appended)
            /\ last_size' = StatSize(csv_lines)
            /\ last_mtime' = StatMtime(csv_lines)
     ELSE /\ last_cycle' = [NoCycle EXCEPT !.kind = "tick", !.prior = PriorRead,
                                           !.lines = csv_lines,
                                           !.wait = watch_loop_sleep(FALSE)]
          /\ UNCHANGED <<csv_lines, csv_exists, last_size, last_mtime, last_df, storeVars>>
  /\ UNCHANGED <<running, task, stop_op, active_connections,
                 diffVars, queryVars, metricVars, priceVars>>

\* FileWatcher.manual_fetch
ManualFetch ==
  /\ \E r \in CycleOutcomes("manual", csv_exists, csv_lines) : Cycle("manual", r, csv_lines)
  /\ UNCHANGED <<csv_lines, csv_exists, last_size, last_mtime, running, task, stop_op,
                 active_connections, diffVars, queryVars, metricVars, priceVars>>

\* the miner appends a prediction line to its log, stamped no earlier than
\* the line before it
AppendLine ==
  \E l \in FileLines :
    /\ csv_exists
    /\ Len(csv_lines) < MaxFileRows
    /\ csv_lines # <<>> => l[1] >= csv_lines[Len(csv_lines)][1]
    /\ csv_lines' = Append(csv_lines, l)
    /\ last_cycle' = Archived
    /\ UNCHANGED <<csv_exists, last_size, last_mtime, last_df, running, task, stop_op,
                   active_connections, storeVars, diffVars, queryVars, metricVars, priceVars>>

\* the log is moved away, or put back
FileToggle ==
  /\ csv_exists' = ~csv_exists
  /\ last_cycle' = Archived
  /\ UNCHANGED <<csv_lines, last_size, last_mtime, last_df, running, task, stop_op,
                 active_connections, storeVars, diffVars, queryVars, metricVars, priceVars>>

\* websocket_endpoint: a client connects, or its connection ends
Connect ==
  \E c \in Connections \ active_connections :
    /\ active_connections' = active_connections \cup {c}
    /\ last_cycle' = Archived
    /\ UNCHANGED <<csv_lines, csv_exists, last_size, last_mtime, last_df, running, task,
                   stop_op, storeVars, diffVars, queryVars, metricVars, priceVars>>

Disconnect ==
  \E c \in active_connections :
    /\ active_connections' = active_connections \ {c}
    /\ last_cycle' = Archived
    /\ UNCHANGED <<csv_lines, csv_exists, last_size, last_mtime, last_df, running, task,
                   stop_op, storeVars, diffVars, queryVars, metricVars, priceVars>>

Init == InitStoreVars /\ DiffIdle /\ QueryIdle /\ MetricIdle /\ InitPriceVars /\ InitWatchVars
Next == Start \/ StopAtOnce \/ StopBegins \/ TaskCancelled \/ StopReturns \/ Tick
          \/ ManualFetch
          \/ AppendLine \/ FileToggle \/ Connect \/ Disconnect
Spec == Init /\ [][Next]_vars

\* ============================================================== claims
Series(m) == miner_data[m].rows

\* C1: merging the same delta twice leaves the miner's Series equal to the
\* Series after merging it once, whether or not the miner has a Series.
C1_MergeIdempotent ==
  \A m \in Sources, df \in KeyedFrames :
    LET once == MergedData(miner_data, m, df)
        twice == MergedData(once, m, df)
    IN twice[m] = once[m]

\* C2: no two rows of a miner's Series share the same observed_at.
C2_UniqueKeys ==
  \A m \in DOMAIN miner_data :
    \A i, j \in 1..Len(Series(m)) :
      i # j => TimestampOf(Series(m)[i]) # TimestampOf(Series(m)[j])

\* the keys of a sequence of rows
KeysOf(rows) == {TimestampOf(rows[i]) : i \in 1..Len(rows)}

\* rows are in descending order of observed_at
SortedDesc(rows) ==
  \A i, j \in 1..Len(rows) : i < j => TimestampOf(rows[i]) >= TimestampOf(rows[j])

\* the Series merge(m, df) leaves, given the prior rows and the delta rows:
\* delta's last row wins for a shared key, prior rows of other keys stay,
\* and the result is sorted descending
MergedAsSpecified(prior, delta, after) ==
  /\ \A k \in KeysOf(prior) \cap KeysOf(delta) :
       LET last == CHOOSE i \in 1..Len(delta) :
                     /\ TimestampOf(delta[i]) = k
                     /\ \A j \in (i + 1)..Len(delta) : TimestampOf(delta[j]) # k
       IN /\ \E i \in 1..Len(after) : after[i] = delta[last]
          /\ \A i \in 1..Len(after) : TimestampOf(after[i]) = k => after[i] = delta[last]
  /\ \A i \in 1..Len(prior) :
       TimestampOf(prior[i]) \notin KeysOf(delta) =>
         \E j \in 1..Len(after) : after[j] = prior[i]
  /\ SortedDesc(after)

\* C11: after merge(m, delta) the Series holds delta's last row for every key
\* shared with the prior Series, keeps every prior row of another key, and is
\* sorted descending by observed_at.
C11_MergeOverridesAndSorts ==
  \A m \in Sources, df \in KeyedFrames :
    MergedAsSpecified(IF m \in DOMAIN miner_data THEN Series(m) ELSE <<>>,
                      df.rows, MergedData(miner_data, m, df)[m].rows)

\* C14: in every state between merges, each miner that has a Series has
\* SummaryStats computed from that Series: their total row count equals the
\* Series' number of rows, also after merging an empty delta.
C14_StatsMatchSeries ==
  \A m \in DOMAIN miner_data :
    /\ m \in DOMAIN miner_stats
    /\ miner_stats[m].total_predictions = Len(Series(m))
    /\ miner_stats[m] = StatsOf(m, miner_data[m])

\* the rows of N whose string-normalised key occurs nowhere in P
RowsWithNewKey(P, N) ==
  SelectSeq(N.rows,
            LAMBDA r : \A i \in 1..Len(P.rows) :
              TimestampStr(TimestampOf(P.rows[i])) # TimestampStr(TimestampOf(r)))

\* C3: when both snapshots carry the natural key, diff(P, N) is exactly the
\* rows of N whose string-normalised observed_at does not occur in P,
\* whatever their other fields; when P is empty, diff(P, N) is all of N.
C3_DeltaByKey ==
  diff_done =>
    /\ IsEmpty(old_df) => (~diff_out.raised /\ diff_out.df = new_df)
    /\ (HasTimestampCol(old_df) /\ HasTimestampCol(new_df)) =>
         (~diff_out.raised /\ diff_out.df.rows = RowsWithNewKey(old_df, new_df))

\* a diff that kept a new-key row and dropped a row whose key is in P although
\* its prediction differs from P's
C3_Witness ==
  /\ diff_done
  /\ HasTimestampCol(old_df) /\ HasTimestampCol(new_df)
  /\ diff_out.df.rows # <<>>
  /\ \E i \in 1..Len(new_df.rows), j \in 1..Len(old_df.rows) :
       /\ TimestampOf(new_df.rows[i]) = TimestampOf(old_df.rows[j])
       /\ \A k \in 1..Len(old_df.rows) : old_df.rows[k] # new_df.rows[i]
       /\ \A k \in 1..Len(diff_out.df.rows) : diff_out.df.rows[k] # new_df.rows[i]

\* C10: a merge for one miner leaves every other miner's Series and
\* SummaryStats as they were.
C10_MergeFrame ==
  [][\A b \in Sources \ {last_merged'} :
       /\ (b \in DOMAIN miner_data') = (b \in DOMAIN miner_data)
       /\ (b \in DOMAIN miner_stats') = (b \in DOMAIN miner_stats)
       /\ b \in DOMAIN miner_data => miner_data'[b] = miner_data[b]
       /\ b \in DOMAIN miner_stats => miner_stats'[b] = miner_stats[b]]_vars

\* a merge for A has just run while B holds a Series and stats of its own
C10_Witness ==
  /\ last_merged = "A"
  /\ "B" \in DOMAIN miner_data /\ "B" \in DOMAIN miner_stats
  /\ "A" \in DOMAIN miner_stats
  /\ miner_data["B"] # miner_data["A"]
  /\ miner_stats["B"].miner_name = "B"

\* ---------------------------------------------------- Ingestion Watcher
\* C12: manual_fetch reports success exactly when its cycle completed: it read
\* the log and nothing raised in the read, the diff or the merge/publish
\* callback; it reports failure otherwise.
C12_ManualReportsOutcome ==
  last_cycle.kind = "manual" =>
    (last_cycle.reported = "success" <=> (last_cycle.read /\ ~last_cycle.raised))

\* the step is a start(), a manual_fetch() or a tick of the polling task
\* (every other step leaves no cycle record)
CycleStep == last_cycle'.kind # "none"

\* the rows of a log's data lines, decoded under the header's columns
KeyedRows(data_lines) == [i \in 1..Len(data_lines) |-> Row(HeaderLine, data_lines[i])]

FileKeys(data_lines) == {data_lines[i][1] : i \in 1..Len(data_lines)}

\* the Snapshot a cycle parses: the last-N-lines window of the log
WindowOf(lines) == parse_csv(TailLines(ReadLines(lines)))

RowsOf(delta) == {delta[i] : i \in DOMAIN delta}

\* the rows of the watched miner's Series in the store md (none before its
\* first merge)
StoredRows(md) == IF WatchedMiner \in DOMAIN md THEN md[WatchedMiner].rows ELSE <<>>

\* `after` is `before` with the whole of `delta` folded in: every row of
\* the delta, and every row that was there, is there unless a row after it
\* (in `before` followed by `delta`) has its key, and nothing else is there
WholeDeltaIn(before, delta, after) ==
  LET all == before \o delta
  IN /\ \A i \in 1..Len(all) :
          \/ all[i] \in RowsOf(after)
          \/ \E j \in (i + 1)..Len(all) : TimestampOf(all[j]) = TimestampOf(all[i])
     /\ RowsOf(after) \subseteq RowsOf(all)

\* C13: whatever step is taken (a cycle, also one run while stop() calls
\* await the tasks they cancelled; a step of a stop(); a later start), the
\* Series store either stays as it was or holds the whole delta of a cycle
\* that read the log, folded in by one merge call; a cycle whose read
\* failed or whose delta is empty makes no merge call and leaves the store
\* as it was.
C13_MergeAllOrNothing ==
  [][/\ \/ miner_data' = miner_data
        \/ /\ last_cycle'.read /\ last_cycle'.merges = 1
           /\ last_cycle'.emitted # <<>>
           /\ DOMAIN miner_data' = DOMAIN miner_data \cup {WatchedMiner}
           /\ \A m \in DOMAIN miner_data \ {WatchedMiner} : miner_data'[m] = miner_data[m]
           /\ WholeDeltaIn(StoredRows(miner_data), last_cycle'.emitted,
                           miner_data'[WatchedMiner].rows)
     /\ (~last_cycle'.read \/ last_cycle'.emitted = <<>>) =>
          (last_cycle'.merges = 0 /\ miner_data' = miner_data)]_vars

\* while a stop() is suspended on the polling task it cancelled, a manual
\* fetch has run a whole cycle and merged a delta of several keyed rows
C13_Witness ==
  /\ ~running /\ task /\ stop_op.awaiting # <<>>
  /\ last_cycle.kind = "manual" /\ last_cycle.merges = 1
  /\ Len(last_cycle.emitted) >= 2
  /\ WatchedMiner \in DOMAIN miner_data
  /\ \A i \in 1..Len(last_cycle.emitted) : last_cycle.emitted[i].hdr = HeaderLine
  /\ \E i, j \in 1..Len(last_cycle.emitted) :
       TimestampOf(last_cycle.emitted[i]) # TimestampOf(last_cycle.emitted[j])
  /\ RowsOf(last_cycle.emitted) \subseteq RowsOf(Series(WatchedMiner))

\* the latest cycle read a log that was appended with one row of a new key
\* since the previous cycle read it
OneRowAppended ==
  /\ last_cycle.read /\ last_cycle.prior # <<>> /\ last_cycle.lines # <<>>
  /\ last_cycle.prior[1] = SubSeq(last_cycle.lines, 1, Len(last_cycle.lines) - 1)
  /\ last_cycle.lines[Len(last_cycle.lines)][1] \notin FileKeys(last_cycle.prior[1])

\* C4: the first cycle that reads a watcher's log emits all of its rows A; the
\* next cycle that reads the log after one row r with a new key was appended
\* emits exactly r; a cycle that reads the log unchanged emits nothing.
C4_FirstThenIncrement ==
  last_cycle.read =>
    /\ last_cycle.prior = <<>> => last_cycle.emitted = KeyedRows(last_cycle.lines)
    /\ OneRowAppended =>
         last_cycle.emitted = <<Row(HeaderLine, last_cycle.lines[Len(last_cycle.lines)])>>
    /\ last_cycle.prior = <<last_cycle.lines>> => last_cycle.emitted = <<>>

\* C5: a cycle that detects a non-empty delta makes exactly one merge call and
\* exactly one publish call with it, also when the merge raises or nobody is
\* connected; a cycle with an empty delta makes neither.
C5_OneMergeOnePublish ==
  last_cycle.kind # "none" =>
    IF last_cycle.emitted # <<>>
      THEN last_cycle.merges = 1 /\ last_cycle.publishes = 1
      ELSE last_cycle.merges = 0 /\ last_cycle.publishes = 0


\* ------------------------------------------------------------ Price Cache
ResolveDone == price_result.kind = "resolve"
BatchDone == price_result.kind = "batch"
ResultAsset == asset_map(price_result.asset)
ResolvedTime == price_result.eval_times[1]
ResolvedPrice == price_result.out[ResolvedTime]

\* the buckets of the index the latest call answered from
IndexedBuckets ==
  {LookupOf(price_lookup_cache, ResultAsset)[i][1] :
     i \in 1..Len(LookupOf(price_lookup_cache, ResultAsset))}

\* the latest resolve answered from a cached, non-empty table
AnsweredFromIndex ==
  /\ ResolveDone
  /\ ResultAsset \in DOMAIN price_cache
  /\ price_cache[ResultAsset].rows # <<>>
  /\ IndexedBuckets # {}

\* distance from the instant t to the nearest indexed bucket
NearestDistance(t) ==
  CHOOSE d \in {Abs(b - t) : b \in IndexedBuckets} :
    \A b \in IndexedBuckets : d <= Abs(b - t)

\* C6: resolve returns a value when t is exactly 300 seconds from the nearest
\* indexed bucket and absent when t is 301 seconds from it, before or after.
C6_ToleranceBoundary ==
  AnsweredFromIndex =>
    /\ NearestDistance(ResolvedTime) = ToleranceSeconds => ResolvedPrice # NoPrice
    /\ NearestDistance(ResolvedTime) = ToleranceSeconds + 1 => ResolvedPrice = NoPrice

\* C6 amended: resolve returns a value when t is exactly 300 seconds from the
\* nearest indexed bucket; the distance that decides is measured from t's
\* 5-minute bucket start, so resolve returns absent exactly when no indexed
\* bucket is within 300 seconds of RoundedTime(t): a t 301 seconds after the
\* nearest bucket still resolves, a t 301 seconds before it resolves only
\* through another bucket within 300 seconds of t's bucket start.
C6_BucketTolerance ==
  AnsweredFromIndex =>
    /\ NearestDistance(ResolvedTime) = ToleranceSeconds => ResolvedPrice # NoPrice
    /\ ResolvedPrice = NoPrice <=>
         \A b \in IndexedBuckets : Abs(b - RoundedTime(ResolvedTime)) > ToleranceSeconds
    /\ (/\ NearestDistance(ResolvedTime) = ToleranceSeconds + 1
        /\ \E b \in IndexedBuckets : b - ResolvedTime = ToleranceSeconds + 1
        /\ \A b \in IndexedBuckets : b > ResolvedTime) => ResolvedPrice = NoPrice

\* a resolve 301 seconds after the only indexed bucket returned its value
C6_Witness ==
  /\ AnsweredFromIndex
  /\ IndexedBuckets = {600}
  /\ ResolvedTime = 901
  /\ ResolvedPrice # NoPrice

\* what an index built from the file as it is now would answer
FreshAnswer(a, t) ==
  IF a \notin ASSET_CSV_MAP \/ ~price_file[a].exists \/ price_file[a].shape # "ok"
    THEN NoPrice
    ELSE get_price_answer(price_file[a].rows # <<>>,
                          BuildLookup(price_file[a].rows, 1, <<>>), t)

\* C7: once the reference file has been rewritten with a later mtime, a
\* resolve that starts afterwards answers from the file's new contents, never
\* from an index of the earlier contents.
C7_NoStaleAnswer ==
  (ResolveDone /\ price_result.began = clock) =>
    ResolvedPrice = FreshAnswer(ResultAsset, ResolvedTime)

\* C8: resolveBatch returns an entry for every input instant, in every cache
\* state.
C8_BatchEntryPerInstant ==
  BatchDone =>
    \A i \in 1..Len(price_result.eval_times) :
      price_result.eval_times[i] \in DOMAIN price_result.out

\* what resolve returns in the cache and file state the batch returned in
ResolveNow(asset, t) ==
  LET a == asset_map(asset)
      chk == LoadCheck(a)
  IN get_price_answer(chk = "cached" /\ price_cache[a].rows # <<>>,
                      LookupOf(price_lookup_cache, a), t)

\* C9: every entry of resolveBatch(asset, instants) equals resolve(asset, t)
\* evaluated in the same cache and file state.
C9_BatchEqualsResolve ==
  (BatchDone /\ price_result.began = clock) =>
    \A i \in 1..Len(price_result.eval_times) :
      LET t == price_result.eval_times[i]
      IN /\ t \in DOMAIN price_result.out
         /\ price_result.out[t] = ResolveNow(price_result.asset, t)

\* the assets a reset names: the one given, or every asset a caller may ask for
ResetTargets(asset) == IF asset = "" THEN QueryAssets \cup ASSET_CSV_MAP ELSE {asset}

\* what the three caches hold for the key b
CachedFor(pc, lk, mt, b) ==
  <<IF b \in DOMAIN pc THEN <<pc[b]>> ELSE <<>>,
    IF b \in DOMAIN lk THEN <<lk[b]>> ELSE <<>>,
    IF b \in DOMAIN mt THEN <<mt[b]>> ELSE <<>>>>

\* C16: after reset(asset) the next resolve for that asset does not answer
\* from the cached index but rebuilds it from the file, also when the file's
\* mtime is unchanged (for every asset after reset()); reset(asset) leaves
\* the cached table, index and mtime of every other asset unchanged.
C16_ResetForcesRebuild ==
  [][price_result'.kind = "reset" =>
       /\ \A a \in ResetTargets(price_result'.asset) :
            /\ asset_map(a) \notin DOMAIN price_lookup_cache'
            /\ LoadCheck(asset_map(a))' # "cached"
       /\ price_result'.asset # "" =>
            \A b \in ASSET_CSV_MAP \ {asset_map(price_result'.asset)} :
              CachedFor(price_cache', price_lookup_cache', file_mtime_cache', b)
                = CachedFor(price_cache, price_lookup_cache, file_mtime_cache, b)]_vars

\* the same for resets that name the asset by its cache key
C16_CanonicalReset ==
  [][(price_result'.kind = "reset" /\ price_result'.asset \in ASSET_CSV_MAP \cup {""}) =>
       /\ \A a \in ResetTargets(price_result'.asset) :
            /\ asset_map(a) \notin DOMAIN price_lookup_cache'
            /\ LoadCheck(asset_map(a))' # "cached"
       /\ price_result'.asset # "" =>
            \A b \in ASSET_CSV_MAP \ {asset_map(price_result'.asset)} :
              CachedFor(price_cache', price_lookup_cache', file_mtime_cache', b)
                = CachedFor(price_cache, price_lookup_cache, file_mtime_cache, b)]_vars

\* the first row of the CSV with the given observed_at, in source order
FirstRowAt(rows, ts) == SelectSeq(rows, LAMBDA r : r.timestamp = ts)[1]

\* C17: every row a query returns for a timestamp is, field for field, the
\* first row of the source with that timestamp, its absent (NaN) fields
\* included.
C17_FirstRowWins ==
  \A i \in 1..Len(query_out.rows) :
    query_out.rows[i] = FirstRowAt(query_df, query_out.rows[i].timestamp)

\* the same for sources in which no row has an absent field
C17_FirstRowWinsNoAbsent ==
  (\A i \in 1..Len(query_df) :
      query_df[i].prediction # NaN /\ query_df[i].interval_lower # NaN)
    => C17_FirstRowWins

\* a step of stop(): it clears running before its await, and the task it
\* cancelled ends during the await
StepOfStop ==
  \/ stop_op'.awaiting # stop_op.awaiting /\ stop_op'.resumable = stop_op.resumable
  \/ stop_op'.resumable > stop_op.resumable

\* C18: Stopped is terminal and entered only by stop(): an operation on a
\* watcher whose stop() has returned leaves it stopped and does not read the
\* file, merge or publish; and running is cleared and the polling task ends
\* only in a stop().
C18_StoppedIsTerminal ==
  [][/\ last_cycle.stopped =>
          /\ ~running' /\ ~task'
          /\ \/ last_cycle' = last_cycle
             \/ (~last_cycle'.read /\ last_cycle'.merges = 0 /\ last_cycle'.publishes = 0)
     /\ ((running /\ ~running') \/ (task /\ ~task')) => StepOfStop]_vars

\* the second half alone: no failure stops the watcher
C18_StoppedOnlyByStop ==
  [][((running /\ ~running') \/ (task /\ ~task')) => StepOfStop]_vars

\* the asset's index is complete: it is the index of every row of the
\* asset's cached table
CompleteIndex(a) ==
  /\ a \in DOMAIN price_cache
  /\ a \in DOMAIN price_lookup_cache
  /\ price_lookup_cache[a] = BuildLookup(price_cache[a].rows, 1, <<>>)

C20_TruncatesToShorter ==
  LET p == metric_args.predictions
      a == metric_args.actuals
      m == min(Len(p), Len(a))
  IN (metric_done /\ p # <<>> /\ a # <<>> /\ Len(p) # Len(a)) =>
       /\ metric_out = calculate_prediction_metrics(SubSeq(p, 1, m), SubSeq(a, 1, m),
                                                    metric_args.intervals_lower,
                                                    metric_args.intervals_upper)
       /\ metric_out.n_predictions = <<m, 1>>
       /\ metric_out # EmptyMetrics

\* evaluate([1,2,3],[1,2]) has been called and returned metrics over two
\* predictions
C20_Witness ==
  /\ metric_done
  /\ metric_args.predictions = <<1, 2, 3>>
  /\ metric_args.actuals = <<1, 2>>
  /\ metric_out.n_predictions = <<2, 1>>
  /\ metric_out.mae = <<0, 1>>

RECURSIVE SumTo(_, _)
SumTo(xs, i) == IF i = 0 THEN 0 ELSE xs[i] + SumTo(xs, i - 1)

\* a call on equally long, non-empty lists has returned
EvaluatedAligned ==
  /\ metric_done
  /\ metric_args.predictions # <<>>
  /\ Len(metric_args.predictions) = Len(metric_args.actuals)

\* MAE, bias, MAPE and coverage are the means the claim names
MetricsAreMeans ==
  LET p == metric_args.predictions
      a == metric_args.actuals
      lo == metric_args.intervals_lower
      hi == metric_args.intervals_upper
      n == Len(p)
      pct == [i \in 1..n |-> Frac(Abs(a[i] - p[i]) * 100, a[i])]
  IN EvaluatedAligned =>
       /\ FracTimes(metric_out.mae, n) = <<SumTo([i \in 1..n |-> Abs(a[i] - p[i])], n), 1>>
       /\ FracTimes(metric_out.bias, n) = <<SumTo([i \in 1..n |-> a[i] - p[i]], n), 1>>
       /\ FracTimes(metric_out.mape, n) = FracSum(pct, 1)
       /\ (Len(lo) = n /\ Len(hi) = n) =>
            FracTimes(metric_out.coverage, n)
              = <<100 * Cardinality({i \in 1..n : lo[i] <= a[i] /\ a[i] <= hi[i]}), 1>>

ExampleEvaluated ==
  /\ metric_done
  /\ metric_args.predictions = <<100, 100>>
  /\ metric_args.actuals = <<110, 90>>

\* C21 as stated: the metrics are the means, and evaluate([100,100],
\* [110,90]) returns MAE = 10, bias = 0 and MAPE = 10%, with coverage 100%
\* for lower = [90,80], upper = [110,100].
C21_MetricsExample ==
  /\ MetricsAreMeans
  /\ ExampleEvaluated =>
       /\ metric_out.mae = <<10, 1>>
       /\ metric_out.bias = <<0, 1>>
       /\ metric_out.mape = <<10, 1>>
       /\ metric_args.intervals_lower # <<>> => metric_out.coverage = <<100, 1>>

\* C21 amended: the same, with MAPE = 1000/99 % (the mean of 10/110 and
\* 10/90, about 10.10%).
C21_MetricsExampleMape ==
  /\ MetricsAreMeans
  /\ ExampleEvaluated =>
       /\ metric_out.mae = <<10, 1>>
       /\ metric_out.bias = <<0, 1>>
       /\ metric_out.mape = <<1000, 99>>
       /\ metric_args.intervals_lower # <<>> => metric_out.coverage = <<100, 1>>

C21_Witness ==
  /\ ExampleEvaluated
  /\ metric_args.intervals_lower = <<90, 80>>
  /\ metric_args.intervals_upper = <<110, 100>>
  /\ metric_out.coverage = <<100, 1>>
  /\ metric_out.mape = <<1000, 99>>

\* C22: a poll tick that finds the file's size and mtime as they were at
\* the latest read (made by start(), by a tick or by manual_fetch())
\* performs no read, no merge and no publish.
C22_UnchangedTickIsIdle ==
  (/\ last_cycle.kind = "tick"
   /\ last_cycle.prior # <<>>
   /\ StatSize(last_cycle.lines) = StatSize(last_cycle.prior[1])
   /\ StatMtime(last_cycle.lines) = StatMtime(last_cycle.prior[1])) =>
     (~last_cycle.read /\ last_cycle.merges = 0 /\ last_cycle.publishes = 0)

\* C23: the watcher sleeps the doubled interval after the second of two
\* consecutive failed ticks and the normal interval after a first failed
\* tick and after a tick that did not fail.
C23_BackoffOnSecondFailure ==
  last_cycle.kind = "tick" =>
    /\ last_cycle.failed_ticks = 2 => last_cycle.wait = 2
    /\ last_cycle.failed_ticks < 2 => last_cycle.wait = 1

\* the half of it that concerns single failures and successes
C23_NormalCadence ==
  (last_cycle.kind = "tick" /\ last_cycle.failed_ticks < 2) => last_cycle.wait = 1

\* the last k data lines of the file decoded under the file's header
RecentRows(lines, k) ==
  [cols |-> {HeaderLine},
   rows |-> [i \in 1..k |-> Row(HeaderLine, lines[Len(lines) - k + i])]]

\* the latest cycle read a file with data lines and recorded its Snapshot
SnapshotTaken ==
  last_cycle.read /\ ~last_cycle.raised /\ last_cycle.lines # <<>>

\* C25: the Snapshot of a read consists of the most recent rows of the
\* file, at most MAX_HISTORICAL_ROWS of them, decoded under the file's
\* header: they carry the timestamp key and the fields of the file's rows,
\* for short files and for files longer than the budget alike.
C25_SnapshotIsRecentRows ==
  SnapshotTaken =>
    \E k \in 1..min(MAX_HISTORICAL_ROWS, Len(last_cycle.lines)) :
      last_df = <<RecentRows(last_cycle.lines, k)>>

\* the same for files of at most MAX_HISTORICAL_ROWS lines, header included
C25_ShortFileSnapshot ==
  (SnapshotTaken /\ Len(ReadLines(last_cycle.lines)) <= MAX_HISTORICAL_ROWS) =>
    last_df = <<RecentRows(last_cycle.lines, Len(last_cycle.lines))>>

\* C24: resolve buckets t down to the start of its 5-minute bucket; an
\* indexed bucket answers with its value; otherwise an indexed bucket at
\* minimal distance from the requested bucket answers if that distance is at
\* most 300 seconds, and the answer is absent when none is within 300.
C24_NearestBucketRule ==
  ResolveDone =>
    LET requested == RoundedTime(ResolvedTime)
        lookup == LookupOf(price_lookup_cache, ResultAsset)
        near == {b \in IndexedBuckets : Abs(b - requested) <= ToleranceSeconds}
    IN /\ requested = ResolvedTime - (ResolvedTime % 300)
       /\ requested \in IndexedBuckets => ResolvedPrice = DictGet(lookup, requested)
       /\ (requested \notin IndexedBuckets /\ near # {}) =>
            \E b \in near :
              /\ \A o \in IndexedBuckets : Abs(b - requested) <= Abs(o - requested)
              /\ ResolvedPrice = DictGet(lookup, b)
       /\ near = {} => ResolvedPrice = NoPrice

\* a resolve whose bucket is not indexed was answered by one of two buckets
\* that are both 300 seconds away
C24_Witness ==
  /\ ResolveDone
  /\ IndexedBuckets = {300, 900}
  /\ ResolvedTime = 600
  /\ ResolvedPrice # NoPrice

\* the polling loop runs a tick every interval for as long as it runs
SpecFair == Spec /\ WF_vars(Tick)

\* every timestamp in the log is a key of the watched miner's Series
FileMerged ==
  /\ WatchedMiner \in DOMAIN miner_data
  /\ \A i \in 1..Len(csv_lines) : csv_lines[i][1] \in KeysOf(Series(WatchedMiner))

\* a failed tick is followed by the merge of the file's rows, unless the
\* file goes away or the watcher is stopped
EventuallyMerged ==
  [](last_cycle.failed_ticks > 0 => <>(FileMerged \/ ~csv_exists \/ ~running))

\* the recorded size and mtime move only with a read that succeeded
StatOnlyOnSuccess ==
  [][(last_size' # last_size \/ last_mtime' # last_mtime) =>
        (last_cycle'.read /\ ~last_cycle'.raised)]_vars

\* C26: after a failed tick the watcher keeps polling and, with the file
\* readable again, eventually merges the file's rows into the Series without
\* a further change of the file: the recorded size and mtime advance only on
\* a read that succeeded.
C26_FailedTickRecovers == EventuallyMerged /\ StatOnlyOnSuccess

\* the part of it that holds: a failed tick does not end the polling
C26_KeepsPolling ==
  [][(Tick /\ last_cycle'.failed_ticks > 0) => (running' /\ task')]_vars

\* a manual fetch right after a poll tick, or the other way round, with no
\* other step in between
ManualMeetsTick ==
  \/ last_cycle.kind = "tick" /\ last_cycle'.kind = "manual"
  \/ last_cycle.kind = "manual" /\ last_cycle'.kind = "tick"

IndexedAndStamped(a) ==
  /\ a \in DOMAIN price_lookup_cache
  /\ price_lookup_cache[a] = BuildLookup(price_cache[a].rows, 1, <<>>)
  /\ a \in DOMAIN file_mtime_cache

\* C28: between calls of the price cache, whatever the files held, an asset
\* has a cached table if and only if it has a cached lookup index built from
\* that table and a recorded modification time.
C28_CacheCoherent ==
  price_op.kind = "idle" =>
    \A a \in ASSET_CSV_MAP :
      /\ a \in DOMAIN price_cache => IndexedAndStamped(a)
      /\ (a \in DOMAIN price_lookup_cache /\ a \in DOMAIN file_mtime_cache) =>
            a \in DOMAIN price_cache

\* the part of it that holds: an index is only ever cached along with its
\* table, and a cached table that has a timestamp column is indexed and stamped
C28_CoherentWithTimestamps ==
  price_op.kind = "idle" =>
    \A a \in ASSET_CSV_MAP :
      /\ a \in DOMAIN price_lookup_cache => a \in DOMAIN price_cache
      /\ (a \in DOMAIN price_cache /\ price_cache[a].shape # "notimestamp") =>
            IndexedAndStamped(a)

\* C29: the set of observed_at keys of a miner's Series never shrinks: every
\* key the Series holds before a merge it holds after it, also for rows that
\* have left the watcher's window and are absent from the Snapshot.
C29_KeysNeverShrink ==
  [][\A m \in DOMAIN miner_data :
       /\ m \in DOMAIN miner_data'
       /\ KeysOf(miner_data[m].rows) \subseteq KeysOf(miner_data'[m].rows)]_vars

\* a cycle has merged a delta taken from a window shorter than the log, and
\* the Series holds a key that no row of that window carries
C29_Witness ==
  /\ last_cycle.merges = 1
  /\ Len(ReadLines(last_cycle.lines)) > MAX_HISTORICAL_ROWS
  /\ WatchedMiner \in DOMAIN miner_data
  /\ KeysOf(Series(WatchedMiner)) \ KeysOf(WindowOf(last_cycle.lines).rows) # {}
  /\ KeysOf(WindowOf(last_cycle.lines).rows) \subseteq KeysOf(Series(WatchedMiner))

\* what pd.read_csv would load from the asset's reference file now
FileTable(a) == [shape |-> price_file[a].shape, rows |-> price_file[a].rows]

\* the next call would take the asset's cached table for current (the file's
\* mtime is not later than the recorded one)
JudgedCurrent(a) ==
  /\ a \in DOMAIN price_cache
  /\ a \in DOMAIN file_mtime_cache
  /\ price_file[a].exists
  /\ price_file[a].mtime <= file_mtime_cache[a]

\* C30: the modification time recorded for an asset is never later than that
\* of the file version whose contents were cached and indexed: whenever the
\* next resolve would judge the cache current, the cached table is the
\* file's present contents, also when the file was rewritten between the
\* read of its contents and the stat of its mtime.
C30_MtimeOfIndexedVersion ==
  price_op.kind = "idle" =>
    \A a \in ASSET_CSV_MAP : JudgedCurrent(a) => price_cache[a] = FileTable(a)

\* the part of it that holds: a load during which the file was not rewritten
\* records the mtime of the version it read
C30_QuietLoadIsExact ==
  [][\A a \in ASSET_CSV_MAP :
       (/\ price_op.kind # "idle" /\ price_op'.kind = "idle"
        /\ a = asset_map(price_op.asset)
        /\ price_file[a].mtime <= price_op.began) =>
         (JudgedCurrent(a)' /\ price_cache'[a] = FileTable(a))]_vars

====
